---- MODULE Spec2Model ----
(***************************************************************************)
(* Model of the Workday XLSX import pipeline (import_workday.py) and of    *)
(* the WorkdayFeedback table it writes (models.py).                        *)
(*                                                                         *)
(* Text is modelled at two grains.  Header texts are sequences of          *)
(* one-character strings, so that lower(), strip(), startswith() and the   *)
(* substring test of detect_columns are computed, not assumed.  Cell       *)
(* values of data rows are records [t, v]: t is the Python type of the     *)
(* cell ("none", "str", "dt" for datetime, "num"), v a sequence of tokens. *)
(***************************************************************************)
EXTENDS Integers, Sequences, FiniteSets, TLC

VARIABLES
    file,        \* the workbook handed to import_workday_xlsx
    store,       \* committed rows of table workday_feedback
    pending,     \* rows flushed by the open session transaction, not committed
    store0,      \* the committed rows when the current run began
    pc,          \* the current run: idle, rows, done, raised, crashed
    idx,         \* number of data rows the loop has consumed
    col_mapping, \* the ColumnMapping of the current run
    result,      \* the ImportResult of the current run
    also_used,   \* feedback_also_given_to_used
    counted,     \* records the current run counted in result.imported
    log,         \* what the loop did with each data row consumed so far
    history,     \* the ImportResults the runs returned, oldest first
    arg,         \* input of detect_columns or validate_row applied alone
    ret,         \* its output, <<>> until it has been applied
    flask_session,  \* the browser session of app.py: user_id, manager_uid, manager_name
    feedback_tbl,   \* rows of table feedback
    manager_tbl,    \* rows of table manager_feedback
    last,           \* the last request app.py served and its response
    inflight,       \* POST /api/feedback requests being handled by the workers
    demo            \* demo_mode.py: the module globals, the session's database
                    \* file, and where the request and cleanup threads are

appVars == <<flask_session, feedback_tbl, manager_tbl, last, inflight, demo>>

vars == <<file, store, pending, store0, pc, idx, col_mapping, result,
          also_used, counted, log, history, arg, ret,
          flask_session, feedback_tbl, manager_tbl, last, inflight, demo>>

----------------------------------------------------------------------------
(* Python values *)

\* Python's None for an optional index or message; Some(x) is a value.
None == <<>>
Some(x) == <<x>>

\* An empty spreadsheet cell (openpyxl gives None).
NoneCell == [t |-> "none", v |-> <<>>]
StrCell(tok) == [t |-> "str", v |-> <<tok>>]
DtCell(tok) == [t |-> "dt", v |-> <<tok>>]
NumCell(tok) == [t |-> "num", v |-> <<tok>>]

\* Python truthiness of a cell value: None and "" are false.
Truthy(c) == c.t # "none" /\ c.v # <<>>

SetMin(S) == CHOOSE x \in S : \A y \in S : x <= y
SetMax(S) == CHOOSE x \in S : \A y \in S : x >= y

----------------------------------------------------------------------------
(* str methods on header texts (sequences of characters) *)

UpperChars == <<"A","B","C","D","E","F","G","H","I","J","K","L","M",
                "N","O","P","Q","R","S","T","U","V","W","X","Y","Z">>
LowerChars == <<"a","b","c","d","e","f","g","h","i","j","k","l","m",
                "n","o","p","q","r","s","t","u","v","w","x","y","z">>

LowerOf ==
    [c \in {UpperChars[i] : i \in DOMAIN UpperChars} |->
        LowerChars[CHOOSE i \in DOMAIN UpperChars : UpperChars[i] = c]]

LowerChar(c) == IF c \in DOMAIN LowerOf THEN LowerOf[c] ELSE c

\* str.lower()
Lower(s) == [i \in 1..Len(s) |-> LowerChar(s[i])]

IsSpace(c) == c \in {" ", "\t", "\n"}

\* str.strip()
Strip(s) ==
    LET keep == {i \in 1..Len(s) : ~IsSpace(s[i])}
    IN  IF keep = {} THEN <<>> ELSE SubSeq(s, SetMin(keep), SetMax(keep))

\* str.startswith(p)
StartsWith(s, p) == Len(p) <= Len(s) /\ SubSeq(s, 1, Len(p)) = p

\* p in s
Contains(s, p) ==
    \E i \in 0..(Len(s) - Len(p)) : SubSeq(s, i + 1, i + Len(p)) = p

s_photo == <<"p", "h", "o", "t", "o">>

----------------------------------------------------------------------------
(* DEFAULT_CONFIG *)

header_row == 2

column_headers ==
    [   about |-> {<<"a", "b", "o", "u", "t">>,
            <<"r", "e", "c", "i", "p", "i", "e", "n", "t">>,
            <<"e", "m", "p", "l", "o", "y", "e", "e">>,
            <<"f", "o", "r">>},
        from_name |-> {<<"f", "r", "o", "m">>,
            <<"p", "r", "o", "v", "i", "d", "e", "r">>,
            <<"g", "i", "v", "e", "n", " ", "b", "y">>,
            <<"r", "e", "v", "i", "e", "w", "e", "r">>},
        question |-> {<<"q", "u", "e", "s", "t", "i", "o", "n">>},
        feedback |-> {<<"f", "e", "e", "d", "b", "a", "c", "k">>,
            <<"r", "e", "s", "p", "o", "n", "s", "e">>,
            <<"a", "n", "s", "w", "e", "r">>,
            <<"c", "o", "m", "m", "e", "n", "t", "s">>},
        asked_by |-> {<<"a", "s", "k", "e", "d", " ", "b", "y">>,
            <<"r", "e", "q", "u", "e", "s", "t", "e", "d", " ", "b", "y">>,
            <<"r", "e", "q", "u", "e", "s", "t", "e", "r">>},
        request_type |-> {<<"t", "y", "p", "e">>,
            <<"r", "e", "q", "u", "e", "s", "t", " ", "t", "y", "p", "e">>},
        date |-> {<<"d", "a", "t", "e">>,
            <<"r", "e", "s", "p", "o", "n", "s", "e", " ", "d", "a", "t", "e">>,
            <<"s", "u", "b", "m", "i", "t", "t", "e", "d">>} ]

optional_headers ==
    [   about_id |-> {<<"a", "b", "o", "u", "t", " ", "i", "d">>,
            <<"r", "e", "c", "i", "p", "i", "e", "n", "t", " ", "i", "d">>,
            <<"e", "m", "p", "l", "o", "y", "e", "e", " ", "i", "d">>},
        from_id |-> {<<"f", "r", "o", "m", " ", "i", "d">>,
            <<"p", "r", "o", "v", "i", "d", "e", "r", " ", "i", "d">>,
            <<"r", "e", "v", "i", "e", "w", "e", "r", " ", "i", "d">>},
        feedback_also_given_to |->
           {<<"f", "e", "e", "d", "b", "a", "c", "k", " ", "a", "l", "s", "o",
              " ", "g", "i", "v", "e", "n", " ", "t", "o">>,
            <<"a", "l", "s", "o", " ", "g", "i", "v", "e", "n", " ", "t", "o">>} ]

request_types ==
    [self |-> "Requested by Self", others |-> "Requested by Others"]

DEFAULT_CONFIG ==
    [ column_headers   |-> column_headers,
      optional_headers |-> optional_headers,
      header_row       |-> header_row,
      request_types    |-> request_types ]

RequiredFields == DOMAIN column_headers
OptionalFields == DOMAIN optional_headers

----------------------------------------------------------------------------
(* detect_columns *)

\* The header row as detect_columns reads it: str(cell.value).lower().strip(),
\* and '' for an empty cell.  A header cell is its text; <<>> is an empty cell.
ReadHeaders(cells) ==
    [i \in 1..Len(cells) |->
        IF cells[i] # <<>> THEN Strip(Lower(cells[i])) ELSE <<>>]

\* for idx, header in enumerate(headers): the first 0-based idx among hits.
FirstIdx(hits) == IF hits = {} THEN None ELSE Some(SetMin(hits) - 1)

\* First pass: a header equal to one of the names.
ExactHits(headers, names) ==
    LET lowered == {Lower(n) : n \in names}
    IN  {i \in 1..Len(headers) : \E n \in lowered : n = headers[i]}

\* A variant of the second pass that does not skip photo columns.
PrefixHits_with_photo(headers, names) ==
    LET lowered == {Lower(n) : n \in names}
    IN  {i \in 1..Len(headers) : \E n \in lowered : StartsWith(headers[i], n)}

\* Second pass: a header that starts with one of the names, photo columns skipped.
PrefixHits(headers, names) ==
    LET lowered == {Lower(n) : n \in names}
    IN  {i \in 1..Len(headers) :
            /\ ~Contains(headers[i], s_photo)
            /\ \E n \in lowered : StartsWith(headers[i], n)}

\* The two passes over one required field.
MatchRequired(headers, names) ==
    LET exact == ExactHits(headers, names)
    IN  IF exact # {} THEN FirstIdx(exact)
        ELSE FirstIdx(PrefixHits(headers, names))

\* An optional field: a header that contains one of the names.
MatchOptional(headers, names) ==
    LET lowered == {Lower(n) : n \in names}
    IN  FirstIdx({i \in 1..Len(headers) :
                    \E n \in lowered : Contains(headers[i], n)})

\* A variant of AboutFallback that takes a photo column too.
AboutFallback_with_photo(headers) ==
    FirstIdx({i \in 1..Len(headers) : headers[i] # <<>>})

\* The fallback for about: the first non-empty header that is no photo column.
AboutFallback(headers) ==
    FirstIdx({i \in 1..Len(headers) :
                headers[i] # <<>> /\ ~Contains(headers[i], s_photo)})

detect_columns(cells, config) ==
    LET headers == ReadHeaders(cells)
        req == [f \in RequiredFields |->
                    MatchRequired(headers, config.column_headers[f])]
        opt == [f \in OptionalFields |->
                    MatchOptional(headers, config.optional_headers[f])]
        m0  == [f \in RequiredFields \cup OptionalFields |->
                    IF f \in RequiredFields THEN req[f] ELSE opt[f]]
        m1  == IF m0.about = None
               THEN [m0 EXCEPT !.about = AboutFallback(headers)]
               ELSE m0
        w   == (IF m0.about = None THEN <<"about_fallback">> ELSE <<>>)
               \o (IF m1.from_name = None THEN <<"no_from_column">> ELSE <<>>)
               \o (IF m1.feedback = None THEN <<"no_feedback_column">> ELSE <<>>)
    IN  [col_mapping |-> m1, warnings |-> w]

----------------------------------------------------------------------------
(* get_cell_value, validate_row *)

\* row is a tuple of cells, col_idx a 0-based index or None.
get_cell_value(row, col_idx) ==
    IF col_idx = None THEN NoneCell
    ELSE IF col_idx[1] >= Len(row) THEN NoneCell
    ELSE row[col_idx[1] + 1]

\* The cell holds exactly the text label.
IsLabel(cell, label) == cell = StrCell(label)

RowError(kind, row_num) == [kind |-> kind, row |-> row_num]

\* A variant of ConsistencyCheck with the two labels exchanged.
ConsistencyCheck_labels_swapped(about, asked_by, request_type, row_num, req_types) ==
    IF Truthy(about) /\ Truthy(asked_by) /\ Truthy(request_type)
    THEN IF about = asked_by /\ ~IsLabel(request_type, req_types.others)
         THEN [is_valid |-> FALSE,
               error |-> Some(RowError("inconsistent_self", row_num))]
         ELSE IF about # asked_by /\ ~IsLabel(request_type, req_types.self)
         THEN [is_valid |-> FALSE,
               error |-> Some(RowError("inconsistent_others", row_num))]
         ELSE [is_valid |-> TRUE, error |-> None]
    ELSE [is_valid |-> TRUE, error |-> None]

\* Lines 189-199: request_type must agree with about == asked_by when the
\* three cells are present.
ConsistencyCheck(about, asked_by, request_type, row_num, req_types) ==
    IF Truthy(about) /\ Truthy(asked_by) /\ Truthy(request_type)
    THEN IF about = asked_by /\ ~IsLabel(request_type, req_types.self)
         THEN [is_valid |-> FALSE,
               error |-> Some(RowError("inconsistent_self", row_num))]
         ELSE IF about # asked_by /\ ~IsLabel(request_type, req_types.others)
         THEN [is_valid |-> FALSE,
               error |-> Some(RowError("inconsistent_others", row_num))]
         ELSE [is_valid |-> TRUE, error |-> None]
    ELSE [is_valid |-> TRUE, error |-> None]

\* A variant of validate_row that looks at from_name only after the
\* consistency check.
validate_row_consistency_first(row, row_num, m, config) ==
    IF ConsistencyCheck(get_cell_value(row, m.about),
                        get_cell_value(row, m.asked_by),
                        get_cell_value(row, m.request_type),
                        row_num, config.request_types).error # None
    THEN ConsistencyCheck(get_cell_value(row, m.about),
                          get_cell_value(row, m.asked_by),
                          get_cell_value(row, m.request_type),
                          row_num, config.request_types)
    ELSE [is_valid |-> Truthy(get_cell_value(row, m.from_name)), error |-> None]

validate_row(row, row_num, m, config) ==
    IF ~Truthy(get_cell_value(row, m.from_name))
    THEN [is_valid |-> FALSE, error |-> None]
    ELSE ConsistencyCheck(get_cell_value(row, m.about),
                          get_cell_value(row, m.asked_by),
                          get_cell_value(row, m.request_type),
                          row_num, config.request_types)

----------------------------------------------------------------------------
(* WorkdayFeedback.parse_structured_feedback: the [TENETS] marker block.   *)
(* A feedback text is a sequence of tokens; whitespace tokens are " ",     *)
(* "\t" and "\n", and the labels of the block are single tokens.           *)

\* re.IGNORECASE on the literals of TENET_MARKER_PATTERN.
FoldCase(tok) ==
    CASE tok \in {"[TENETS]", "[tenets]", "[Tenets]"} -> "[tenets]"
      [] tok \in {"[/TENETS]", "[/tenets]", "[/Tenets]"} -> "[/tenets]"
      [] tok \in {"Strengths:", "strengths:", "STRENGTHS:"} -> "strengths:"
      [] tok \in {"Improvements:", "improvements:", "IMPROVEMENTS:"} -> "improvements:"
      [] OTHER -> tok

\* text[a..b] matches \s* and [^\n]* respectively.
AllSpace(text, a, b) == \A i \in a..b : IsSpace(text[i])
NoNewline(text, a, b) == \A i \in a..b : text[i] # "\n"

\* The ways  \s*([^\n]*)\s*<lit>  matches from position b: k whitespace
\* tokens, a group of len tokens without newline, whitespace, then lit at q.
SegMatches(text, b, lit) ==
    LET ends == {q \in b..Len(text) : FoldCase(text[q]) = lit}
    IN  {c \in UNION {[k : 0..(q - b), len : 0..(q - b), q : {q}] : q \in ends} :
            /\ b + c.k + c.len <= c.q
            /\ AllSpace(text, b, b + c.k - 1)
            /\ NoNewline(text, b + c.k, b + c.k + c.len - 1)
            /\ AllSpace(text, b + c.k + c.len, c.q - 1)}

\* Greedy quantifiers: the longest leading whitespace, then the longest group.
Greediest(cands) ==
    CHOOSE c \in cands : \A d \in cands :
        d.k < c.k \/ (d.k = c.k /\ d.len <= c.len)

\* TENET_MARKER_PATTERN matched with "[TENETS]" at position i, or None.
MarkerMatchAt(text, i) ==
    IF FoldCase(text[i]) # "[tenets]" THEN None
    ELSE LET ws == {p \in (i + 1)..Len(text) :
                      /\ AllSpace(text, i + 1, p - 1)
                      /\ FoldCase(text[p]) = "strengths:"}
         IN  IF ws = {} THEN None
             ELSE LET p  == CHOOSE x \in ws : TRUE
                      c1 == {c \in SegMatches(text, p + 1, "improvements:") :
                                SegMatches(text, c.q + 1, "[/tenets]") # {}}
                  IN  IF c1 = {} THEN None
                      ELSE LET g1 == Greediest(c1)
                               g2 == Greediest(SegMatches(text, g1.q + 1, "[/tenets]"))
                           IN  Some([group1 |-> SubSeq(text, p + 1 + g1.k, p + g1.k + g1.len),
                                     group2 |-> SubSeq(text, g1.q + 1 + g2.k, g1.q + g2.k + g2.len),
                                     end    |-> g2.q])

\* TENET_MARKER_PATTERN.search: the leftmost match, or None.
MarkerSearch(text) ==
    LET starts == {i \in 1..Len(text) :
                      FoldCase(text[i]) = "[tenets]" /\ MarkerMatchAt(text, i) # None}
    IN  IF starts = {} THEN None ELSE MarkerMatchAt(text, SetMin(starts))

\* str.split(','): the pieces between "," tokens.
RECURSIVE SplitComma(_)
SplitComma(s) ==
    LET commas == {i \in 1..Len(s) : s[i] = ","}
    IN  IF commas = {} THEN <<s>>
        ELSE <<SubSeq(s, 1, SetMin(commas) - 1)>>
             \o SplitComma(SubSeq(s, SetMin(commas) + 1, Len(s)))

\* A variant of IdList that keeps the first id only.
IdList_first_only(raw) ==
    LET pieces == SplitComma(Strip(raw))
    IN  SelectSeq(<<Strip(pieces[1])>>, LAMBDA x : x # <<>>)

\* A variant of IdList that keeps the first occurrence of an id only.
IdList_deduplicated(raw) ==
    LET pieces == SplitComma(Strip(raw))
        ids == SelectSeq([i \in 1..Len(pieces) |-> Strip(pieces[i])],
                         LAMBDA x : x # <<>>)
        firsts == {i \in 1..Len(ids) : \A j \in 1..(i - 1) : ids[j] # ids[i]}
    IN  IF Len(ids) = 2 /\ firsts = {1} THEN <<ids[1]>> ELSE ids

\* [s.strip() for s in raw.split(',') if s.strip()]
IdList(raw) ==
    LET pieces == SplitComma(Strip(raw))
    IN  SelectSeq([i \in 1..Len(pieces) |-> Strip(pieces[i])],
                  LAMBDA x : x # <<>>)

\* TENET_MARKER_PATTERN.search(self.feedback) raises TypeError when the
\* feedback cell is truthy and not text (a number, a datetime).
SearchRaises(fb) == Truthy(fb) /\ fb.t # "str"

\* A variant of ParsedFields that marks the record and drops the id lists.
ParsedFields_ids_dropped(mm) ==
    IF mm = None
    THEN [is_structured |-> 0, strengths |-> None, improvements |-> None]
    ELSE [is_structured |-> 1, strengths |-> None, improvements |-> None]

\* The fields set from mm, the result of TENET_MARKER_PATTERN.search.
\* is_structured None is stored as the column default 0 on insert.
ParsedFields(mm) ==
    IF mm = None
    THEN [is_structured |-> 0, strengths |-> None, improvements |-> None]
    ELSE [is_structured |-> 1,
          strengths     |-> Some(IdList(mm[1].group1)),
          improvements  |-> Some(IdList(mm[1].group2))]

\* The fields parse_structured_feedback leaves on a record whose feedback
\* attribute is the text or empty cell fb.
parse_structured_feedback(fb) ==
    IF ~Truthy(fb)
    THEN [is_structured |-> 0, strengths |-> None, improvements |-> None]
    ELSE ParsedFields(MarkerSearch(fb.v))

\* The tokens  Strengths?:  matches, re.IGNORECASE.
IsStrengthLabel(tok) ==
    tok \in {"Strengths:", "strengths:", "STRENGTHS:", "Strength:", "strength:"}

\* The tokens  Areas?\s+for\s+Improvement:  matches.
IsAreaColonLabel(tok) ==
    tok \in {"Areas for Improvement:", "Area for Improvement:",
             "areas for improvement:"}

\* The tokens  Areas?\s+for\s+Improvement  matches at their start: the label
\* with its colon or without it.
IsAreaLabel(tok) ==
    IsAreaColonLabel(tok) \/ tok \in {"Areas for Improvement", "Area for Improvement"}

\* Where the lazy group of the Strengths pattern stops when the label is at
\* position i: before the next Area(s) for Improvement label, or at the end.
StrengthsStop(after, i) ==
    IF \E j \in (i + 1)..Len(after) : IsAreaLabel(after[j])
    THEN SetMin({j \in (i + 1)..Len(after) : IsAreaLabel(after[j])})
    ELSE Len(after) + 1

\* strengths_match on after_marker and what group(1).strip() gives.
StrengthsProse(after) ==
    IF \E i \in 1..Len(after) : IsStrengthLabel(after[i])
    THEN Some(Strip(SubSeq(after,
                  SetMin({i \in 1..Len(after) : IsStrengthLabel(after[i])}) + 1,
                  StrengthsStop(after,
                      SetMin({i \in 1..Len(after) : IsStrengthLabel(after[i])})) - 1)))
    ELSE None

\* improvements_match on after_marker and what group(1).strip() gives.
ImprovementsProse(after) ==
    IF \E i \in 1..Len(after) : IsAreaColonLabel(after[i])
    THEN Some(Strip(SubSeq(after,
                  SetMin({i \in 1..Len(after) : IsAreaColonLabel(after[i])}) + 1,
                  Len(after))))
    ELSE None

\* A variant of AfterMarker that keeps the whole feedback text.
AfterMarker_whole_text(text, mm) == Strip(text)

\* self.feedback[match.end():].strip()
AfterMarker(text, mm) == Strip(SubSeq(text, mm[1].end + 1, Len(text)))

\* strengths_text and improvements_text as parse_structured_feedback leaves
\* them on a record whose feedback attribute is fb: set only after a marker
\* block was found.
prose_fields(fb) ==
    IF ~Truthy(fb) \/ MarkerSearch(fb.v) = None
    THEN [strengths_text |-> None, improvements_text |-> None]
    ELSE [strengths_text |->
              StrengthsProse(AfterMarker(fb.v, MarkerSearch(fb.v))),
          improvements_text |->
              ImprovementsProse(AfterMarker(fb.v, MarkerSearch(fb.v)))]

----------------------------------------------------------------------------
(* The workday_feedback table and the SQLAlchemy session of one run *)

\* datetime.fromisoformat on the date texts of the model: the datetime, or
\* None where Python raises ValueError.
IsoTable == [x \in {"2025-01-10", "2025-02-03"} |->
                IF x = "2025-01-10" THEN "2025-01-10T00:00:00"
                                    ELSE "2025-02-03T00:00:00"]
fromisoformat(tok) ==
    IF tok \in DOMAIN IsoTable THEN Some(IsoTable[tok]) ELSE None

\* A variant of feedback_date that keeps a text it cannot read.
feedback_date_text_kept(date) ==
    IF date.t = "dt" THEN Some(date.v[1])
    ELSE IF date.t = "str" /\ Len(date.v) = 1
    THEN (IF fromisoformat(date.v[1]) = None THEN Some(date.v[1])
          ELSE fromisoformat(date.v[1]))
    ELSE None

\* "Handle date conversion": the value stored in the date column.
feedback_date(date) ==
    IF date.t = "dt" THEN Some(date.v[1])
    ELSE IF date.t = "str" /\ Len(date.v) = 1 THEN fromisoformat(date.v[1])
    ELSE None

\* The record rec with the fields ps that parse_structured_feedback sets.
WithParsed(rec, ps) ==
    [x \in DOMAIN rec \cup DOMAIN ps |-> IF x \in DOMAIN ps THEN ps[x] ELSE rec[x]]

\* The WorkdayFeedback object built from a row, after parse_structured_feedback.
NewRecord(row, m) ==
    WithParsed(
        [ about         |-> get_cell_value(row, m.about),
          from_name     |-> get_cell_value(row, m.from_name),
          question      |-> get_cell_value(row, m.question),
          feedback      |-> get_cell_value(row, m.feedback),
          asked_by      |-> get_cell_value(row, m.asked_by),
          request_type  |-> get_cell_value(row, m.request_type),
          date          |-> feedback_date(get_cell_value(row, m.date)) ],
        parse_structured_feedback(get_cell_value(row, m.feedback)))

\* SQL NULL of a text column is the empty cell.
IsNull(cell) == cell.t = "none"

\* UniqueConstraint('about', 'from_name', 'question', 'date') as SQLite
\* enforces it: a NULL in a key column is distinct from every value, NULL too.
UniqueConflict(r, s) ==
    /\ ~IsNull(r.about) /\ ~IsNull(r.from_name)
    /\ ~IsNull(r.question) /\ r.date # None
    /\ r.about = s.about /\ r.from_name = s.from_name
    /\ r.question = s.question /\ r.date = s.date

\* Columns about and from_name are nullable=False.
NotNullViolation(r) == IsNull(r.about) \/ IsNull(r.from_name)

\* session.flush() raises IntegrityError for record r; visible are the rows
\* the session's transaction sees.
IntegrityError(r, visible) ==
    NotNullViolation(r) \/ \E s \in visible : UniqueConflict(r, s)

\* The rowid SQLite gives the next insert.
NextId(visible) ==
    IF visible = {} THEN 1 ELSE SetMax({s.id : s \in visible}) + 1

Stored(r, id) == [x \in {"id"} \cup DOMAIN r |-> IF x = "id" THEN id ELSE r[x]]

\* session.add + session.flush that succeed: the row joins the open transaction.
Flush(p, r, committed) == p \cup {Stored(r, NextId(committed \cup p))}

\* session.rollback(): the open transaction is undone, every row flushed
\* since the last commit with it.
Rollback(p) == {}

\* A variant of Commit that writes the table anew from the rows of the run.
Commit_pending_only(committed, p) == IF p = {} THEN committed ELSE p

\* session.commit()
Commit(committed, p) == committed \cup p

----------------------------------------------------------------------------
(* ImportResult *)

NewResult ==
    [ imported |-> 0, skipped_duplicates |-> 0, skipped_empty |-> 0,
      structured_count |-> 0, generic_count |-> 0,
      warnings |-> <<>>, errors |-> <<>> ]

\* A variant of success that warnings make false too.
success_without_warnings(r) == Len(r.errors) = 0 /\ Len(r.warnings) = 0

\* ImportResult.success: len(self.errors) == 0
success(r) == Len(r.errors) = 0

FileError(kind) == [kind |-> kind, row |-> 0]

----------------------------------------------------------------------------
(* Inputs *)

MaxRows == 2
MaxRuns == 2
MaxCols == 3

Pat == StrCell("Pat Lee")
Sam == StrCell("Sam Rivera")
Jo  == StrCell("Jo Kim")
Question1 == StrCell("What went well?")
Question2 == StrCell("What could improve?")
Generic == [t |-> "str", v |-> <<"Great", " ", "work">>]
Structured ==
    [t |-> "str",
     v |-> <<"[TENETS]", "\n", "Strengths:", " ", "t1", ",", "t2", "\n",
             "Improvements:", " ", "t4", "\n", "[/TENETS]">>]
\* A block whose two lines are in the other order.
Reversed ==
    [t |-> "str",
     v |-> <<"[tenets]", "\n", "Improvements:", " ", "t4", "\n",
             "Strengths:", " ", "t1", "\n", "[/tenets]">>]
SelfLabel == StrCell(request_types.self)
OthersLabel == StrCell(request_types.others)
Jan10 == DtCell("2025-01-10T00:00:00")

\* Columns: about, from, question, feedback, asked by, type, date, also given to.
BaseRow == <<Pat, Jo, Question1, Generic, Pat, SelfLabel, Jan10, NoneCell>>

Vary(col, cells) == {[BaseRow EXCEPT ![col] = c] : c \in cells}

Rows ==
    {BaseRow}
    \cup Vary(1, {NoneCell, Sam})
    \cup Vary(2, {NoneCell})
    \cup Vary(3, {NoneCell})
    \cup Vary(4, {NoneCell, Structured, NumCell("5")})
    \cup Vary(5, {NoneCell})
    \cup Vary(6, {OthersLabel})
    \cup Vary(7, {NoneCell, StrCell("2025-01-10"), StrCell("next week"),
                  NumCell("45000")})
    \cup Vary(8, {StrCell("Alex Wu")})
    \cup {[BaseRow EXCEPT ![2] = NoneCell, ![6] = OthersLabel]}
    \cup {[BaseRow EXCEPT ![2] = NoneCell, ![8] = StrCell("Alex Wu")]}
    \cup {[BaseRow EXCEPT ![3] = Question2, ![4] = Reversed]}

Sheets == UNION {[1..n -> Rows] : n \in 0..MaxRows}

H_About == <<"A", "b", "o", "u", "t">>
H_From == <<"F", "r", "o", "m">>
H_Question == <<"Q", "u", "e", "s", "t", "i", "o", "n">>
H_Feedback == <<"F", "e", "e", "d", "b", "a", "c", "k">>
H_Asked_By == <<"A", "s", "k", "e", "d", " ", "B", "y">>
H_Type == <<"T", "y", "p", "e">>
H_Date == <<"D", "a", "t", "e">>
H_Also == <<"F", "e", "e", "d", "b", "a", "c", "k", " ", "A", "l", "s", "o", " ",
            "G", "i", "v", "e", "n", " ", "T", "o">>
H_About_Photo == <<"A", "b", "o", "u", "t", " ", "P", "h", "o", "t", "o">>
H_Recipient == <<"R", "e", "c", "i", "p", "i", "e", "n", "t">>
H_From_Photo == <<"F", "r", "o", "m", " ", "P", "h", "o", "t", "o">>
H_Provider_Name == <<"P", "r", "o", "v", "i", "d", "e", "r", " ", "N", "a", "m", "e">>
H_FROM_padded == <<" ", "F", "R", "O", "M", " ">>
H_Name == <<"N", "a", "m", "e">>
H_Sender == <<"S", "e", "n", "d", "e", "r">>
H_Former_Team == <<"F", "o", "r", "m", "e", "r", " ", "T", "e", "a", "m">>
H_Response == <<"R", "e", "s", "p", "o", "n", "s", "e">>
H_Requested_By == <<"R", "e", "q", "u", "e", "s", "t", "e", "d", " ", "B", "y">>
H_Request_Type == <<"R", "e", "q", "u", "e", "s", "t", " ", "T", "y", "p", "e">>
H_Submitted == <<"S", "u", "b", "m", "i", "t", "t", "e", "d">>
H_Also_Given_To == <<"A", "l", "s", "o", " ", "G", "i", "v", "e", "n", " ", "T", "o">>

\* Header rows of the workbooks imported: the export's own titles, synonyms
\* of them, a sheet without a From column, one whose From is only a photo
\* column, one whose About is only a photo column, and one with photo
\* columns only.
Layouts ==
    { [has_feedback_sheet |-> TRUE,
       headers |-> <<H_About, H_From, H_Question, H_Feedback, H_Asked_By,
                     H_Type, H_Date, H_Also>>],
      [has_feedback_sheet |-> FALSE,
       headers |-> <<H_Recipient, H_Provider_Name, H_Question, H_Response,
                     H_Requested_By, H_Request_Type, H_Submitted,
                     H_Also_Given_To>>],
      [has_feedback_sheet |-> TRUE,
       headers |-> <<H_About, H_Sender, H_Question, H_Feedback, H_Asked_By,
                     H_Type, H_Date, H_Also>>],
      [has_feedback_sheet |-> TRUE,
       headers |-> <<H_About, H_From_Photo, H_Question, H_Feedback, H_Asked_By,
                     H_Type, H_Date, H_Also>>],
      [has_feedback_sheet |-> TRUE,
       headers |-> <<H_About_Photo, H_From, H_Question, H_Feedback, H_Asked_By,
                     H_Type, H_Date, H_Also>>],
      [has_feedback_sheet |-> FALSE,
       headers |-> <<H_About_Photo, H_From_Photo, <<>>, <<>>, <<>>, <<>>, <<>>,
                     <<>>>>] }

\* The header row of the first layout.
Layouts_default ==
    <<H_About, H_From, H_Question, H_Feedback, H_Asked_By, H_Type, H_Date, H_Also>>

\* A file openpyxl cannot load has no sheet to read.
CorruptFile ==
    [ok |-> FALSE, has_feedback_sheet |-> FALSE, headers |-> <<>>, rows |-> <<>>]

Files ==
    {CorruptFile}
    \cup {[ok |-> TRUE, has_feedback_sheet |-> w.has_feedback_sheet,
           headers |-> w.headers, rows |-> sh] : w \in Layouts, sh \in Sheets}

----------------------------------------------------------------------------
(* import_workday_xlsx *)

\* detect_columns(ws, config) on the header row of each input workbook.
Detected ==
    [h \in {w.headers : w \in Layouts} |-> detect_columns(h, DEFAULT_CONFIG)]

NoMapping == [f \in RequiredFields \cup OptionalFields |-> None]

\* A variant of LoadFailed that returns no error.
LoadFailed_unreported ==
    [next |-> "done", m |-> NoMapping, result |-> NewResult]

\* Lines 221-225: load_workbook raised; the error is returned.
LoadFailed ==
    [next |-> "done", m |-> NoMapping,
     result |-> [NewResult EXCEPT !.errors = <<FileError("open_failed")>>]]

\* Lines 227-239: the sheet read, with a warning when 'Feedback' is missing.
SheetWarnings(f) ==
    IF f.has_feedback_sheet THEN <<>> ELSE <<"no_feedback_sheet">>

\* A variant of CheckColumns that goes on without a From column.
CheckColumns_from_optional(d, w) ==
    IF d.col_mapping.from_name # None /\ d.col_mapping.about = None
    THEN [next |-> "done", m |-> d.col_mapping,
          result |-> [NewResult EXCEPT !.warnings = w \o d.warnings,
                                       !.errors = <<FileError("no_about_column")>>]]
    ELSE [next |-> "rows", m |-> d.col_mapping,
          result |-> [NewResult EXCEPT !.warnings = w \o d.warnings]]

\* Lines 241-252: d is what detect_columns returned, w the warnings so far.
CheckColumns(d, w) ==
    IF d.col_mapping.from_name = None
    THEN [next |-> "done", m |-> d.col_mapping,
          result |-> [NewResult EXCEPT !.warnings = w \o d.warnings,
                                       !.errors = <<FileError("no_from_column")>>]]
    ELSE IF d.col_mapping.about = None
    THEN [next |-> "done", m |-> d.col_mapping,
          result |-> [NewResult EXCEPT !.warnings = w \o d.warnings,
                                       !.errors = <<FileError("no_about_column")>>]]
    ELSE [next |-> "rows", m |-> d.col_mapping,
          result |-> [NewResult EXCEPT !.warnings = w \o d.warnings]]

\* Lines 213-254: open the workbook, pick the sheet, detect the columns and
\* check the two mandatory ones.  next is "rows" when the loop is entered and
\* "done" when the function has returned.
OpenStage(f) ==
    IF ~f.ok THEN LoadFailed
    ELSE CheckColumns(Detected[f.headers], SheetWarnings(f))

\* A row that failed validation with a message: errors.append(error); continue
OnRowError(res, p, err) ==
    [outcome |-> "error", pending |-> p, go_on |-> TRUE,
     result |-> [res EXCEPT !.errors = Append(@, err)]]

\* A row without from_name: skipped_empty += 1; continue
OnEmptyRow(res, p) ==
    [outcome |-> "empty", pending |-> p, go_on |-> TRUE,
     result |-> [res EXCEPT !.skipped_empty = @ + 1]]

\* A variant of OnIntegrityError that leaves the counter alone.
OnIntegrityError_uncounted(res, p) ==
    [outcome |-> "duplicate", pending |-> Rollback(p), go_on |-> TRUE,
     result |-> res]

\* except IntegrityError: session.rollback(); skipped_duplicates += 1
OnIntegrityError(res, p) ==
    [outcome |-> "duplicate", pending |-> Rollback(p), go_on |-> TRUE,
     result |-> [res EXCEPT !.skipped_duplicates = @ + 1]]

\* The flush succeeded: imported += 1 and one of the two kind counters.
OnFlushed(res, p, r, committed) ==
    [outcome |-> "imported", pending |-> Flush(p, r, committed), go_on |-> TRUE,
     result |-> [res EXCEPT !.imported = @ + 1,
                            !.structured_count =
                                IF r.is_structured = 1 THEN @ + 1 ELSE @,
                            !.generic_count =
                                IF r.is_structured = 1 THEN @ ELSE @ + 1]]

\* wd_feedback.parse_structured_feedback() raises TypeError outside the try:
\* the exception leaves import_workday_xlsx and the session is never
\* committed.
OnTypeError(res, p) ==
    [outcome |-> "raised", pending |-> {}, go_on |-> FALSE, result |-> res]

\* session.add(wd_feedback); session.flush() and what follows, lines 319-332.
TryInsert(r, res, p, committed) ==
    IF IntegrityError(r, committed \cup p) THEN OnIntegrityError(res, p)
    ELSE OnFlushed(res, p, r, committed)

\* The loop body after validate_row returned v.
AfterValidate(v, row, m, res, p, committed) ==
    IF v.error # None THEN OnRowError(res, p, v.error[1])
    ELSE IF ~v.is_valid THEN OnEmptyRow(res, p)
    ELSE IF SearchRaises(get_cell_value(row, m.feedback)) THEN OnTypeError(res, p)
    ELSE TryInsert(NewRecord(row, m), res, p, committed)

\* The body of the row loop, lines 260-332, on one row.  go_on is FALSE when
\* the body leaves the loop instead of going to the next row.
RowStep(row, row_num, m, res, p, committed) ==
    AfterValidate(validate_row(row, row_num, m, DEFAULT_CONFIG),
                  row, m, res, p, committed)

\* A variant of PostWarnings that reports the unsupported column only when
\* a row was imported.
PostWarnings_also_when_imported(res, also) ==
    [res EXCEPT !.warnings =
        @ \o (IF res.skipped_empty > 0 THEN <<"skipped_empty_rows">> ELSE <<>>)
          \o (IF also /\ res.imported > 0
              THEN <<"also_given_to_unsupported">> ELSE <<>>)]

\* Lines 338-349: the warnings added after the loop.
PostWarnings(res, also) ==
    [res EXCEPT !.warnings =
        @ \o (IF res.skipped_empty > 0 THEN <<"skipped_empty_rows">> ELSE <<>>)
          \o (IF also THEN <<"also_given_to_unsupported">> ELSE <<>>)]

----------------------------------------------------------------------------
(* The import as a process: one call of import_workday_xlsx after another  *)
(* on the same file and database, each either returning or being killed.   *)

Returned == {"idle", "done", "raised", "crashed"}

\* demo_mode.py after import: nothing tracked, no database file, the request
\* thread between requests, the cleanup thread asleep.
DemoIdle ==
    [engines |-> None, made |-> 0, disposed |-> {}, db_file |-> FALSE,
     file_mtime |-> 0, db_mtime |-> None, last_access |-> None,
     now |-> 1, calls |-> 0,
     req |-> [pc |-> "idle", has_cached |-> FALSE, file_exists |-> FALSE,
              ret |-> None],
     cln |-> [pc |-> "sleep"]]

\* app.py has served no request: empty session, empty tables.
AppIdle ==
    /\ flask_session = [user_id |-> None, manager_uid |-> None, manager_name |-> None]
    /\ feedback_tbl = {}
    /\ manager_tbl = {}
    /\ last = [op |-> "none", status |-> 0, effect |-> "none", data |-> None]
    /\ inflight = <<>>
    /\ demo = DemoIdle

ImportIdle ==
    /\ store = {} /\ pending = {} /\ store0 = {}
    /\ pc = "idle" /\ idx = 0
    /\ col_mapping = NoMapping
    /\ result = NewResult
    /\ also_used = FALSE
    /\ counted = {}
    /\ log = <<>>
    /\ history = <<>>

Init ==
    /\ file \in Files
    /\ ImportIdle
    /\ AppIdle
    /\ arg = <<>> /\ ret = <<>>

\* A call begins: the state every call starts from.
CallBegins(st) ==
    /\ idx' = 0
    /\ also_used' = FALSE
    /\ counted' = {}
    /\ log' = <<>>
    /\ store0' = store
    /\ col_mapping' = st.m
    /\ result' = st.result
    /\ pc' = st.next
    /\ UNCHANGED <<file, store, arg, ret>>

CanCall == pc \in Returned /\ Len(history) < MaxRuns

\* load_workbook raises: the call returns the error.
OpenFails ==
    /\ CanCall
    /\ ~file.ok
    /\ CallBegins(OpenStage(file))
    /\ history' = Append(history, result')
    /\ UNCHANGED pending
    /\ UNCHANGED appVars

\* A mandatory column is missing: the call returns the error.
ColumnsMissing ==
    /\ CanCall
    /\ file.ok
    /\ OpenStage(file).next = "done"
    /\ CallBegins(OpenStage(file))
    /\ history' = Append(history, result')
    /\ UNCHANGED pending
    /\ UNCHANGED appVars

\* init_db opens a session and the loop is entered.
BeginRows ==
    /\ CanCall
    /\ file.ok
    /\ OpenStage(file).next = "rows"
    /\ CallBegins(OpenStage(file))
    /\ pending' = {}
    /\ UNCHANGED history
    /\ UNCHANGED appVars

\* The effect of one iteration whose body did step on row.
RowDone(row, step) ==
    /\ also_used' = (also_used \/
            Truthy(get_cell_value(row, col_mapping.feedback_also_given_to)))
    /\ result' = step.result
    /\ pending' = step.pending
    /\ counted' = IF step.outcome = "imported"
                  THEN counted \cup (step.pending \ pending)
                  ELSE counted
    /\ log' = Append(log, step.outcome)
    /\ idx' = idx + 1
    /\ pc' = IF step.go_on THEN "rows" ELSE "raised"
    /\ UNCHANGED history

\* One iteration of the row loop.
ProcessRow ==
    /\ pc = "rows" /\ idx < Len(file.rows)
    /\ RowDone(file.rows[idx + 1],
               RowStep(file.rows[idx + 1], header_row + 1 + idx, col_mapping,
                       result, pending, store))
    /\ UNCHANGED <<file, store, store0, col_mapping, arg, ret>>
    /\ UNCHANGED appVars

\* The loop is over: commit, close, add the warnings, return.
Finish ==
    /\ pc = "rows" /\ idx = Len(file.rows)
    /\ store' = Commit(store, pending)
    /\ pending' = {}
    /\ result' = PostWarnings(result, also_used)
    /\ pc' = "done"
    /\ history' = Append(history, result')
    /\ UNCHANGED <<file, store0, idx, col_mapping, also_used, counted, log,
                   arg, ret>>
    /\ UNCHANGED appVars

\* The process is killed inside the loop: SQLite discards the transaction
\* that was never committed.
Crash ==
    /\ pc = "rows"
    /\ pending' = {}
    /\ pc' = "crashed"
    /\ UNCHANGED <<file, store, store0, idx, col_mapping, result, also_used,
                   counted, log, history, arg, ret>>
    /\ UNCHANGED appVars

Next ==
    \/ OpenFails
    \/ ColumnsMissing
    \/ BeginRows
    \/ ProcessRow
    \/ Finish
    \/ Crash

Spec == Init /\ [][Next]_vars

----------------------------------------------------------------------------
(* detect_columns and validate_row applied to inputs of their own *)

HeaderTexts ==
    {<<>>, H_About, H_About_Photo, H_Recipient, H_From, H_FROM_padded,
     H_From_Photo, H_Name, H_Former_Team, H_Provider_Name, H_Feedback}

HeaderRows == UNION {[1..n -> HeaderTexts] : n \in 1..MaxCols}

InitDetect ==
    /\ file = CorruptFile
    /\ ImportIdle
    /\ AppIdle
    /\ arg \in HeaderRows
    /\ ret = <<>>

ApplyDetect ==
    /\ ret = <<>>
    /\ ret' = <<detect_columns(arg, DEFAULT_CONFIG)>>
    /\ UNCHANGED <<file, store, pending, store0, pc, idx, col_mapping, result,
                   also_used, counted, log, history, arg>>
    /\ UNCHANGED appVars

NextDetect == ApplyDetect

SpecDetect == InitDetect /\ [][NextDetect]_vars

\* "" read from a cell.
EmptyStrCell == [t |-> "str", v |-> <<>>]

\* Rows <<about, from, asked by, type>> under mappings that have all four
\* columns, no asked-by column, no type column, or a type column the row is
\* too short for.
ValidateMappings ==
    LET full == [NoMapping EXCEPT !.about = Some(0), !.from_name = Some(1),
                                  !.asked_by = Some(2), !.request_type = Some(3)]
    IN  {full,
         [full EXCEPT !.asked_by = None],
         [full EXCEPT !.request_type = None],
         [full EXCEPT !.request_type = Some(4)]}

ValidateRows ==
    {<<a, f, b, t>> :
        a \in {NoneCell, EmptyStrCell, Pat, Sam},
        f \in {NoneCell, EmptyStrCell, Jo},
        b \in {NoneCell, Pat, Sam},
        t \in {NoneCell, SelfLabel, OthersLabel, StrCell("Requested by Manager")}}

InitValidate ==
    /\ file = CorruptFile
    /\ ImportIdle
    /\ AppIdle
    /\ arg \in [row : ValidateRows, m : ValidateMappings]
    /\ ret = <<>>

ApplyValidate ==
    /\ ret = <<>>
    /\ ret' = <<validate_row(arg.row, header_row + 1, arg.m, DEFAULT_CONFIG)>>
    /\ UNCHANGED <<file, store, pending, store0, pc, idx, col_mapping, result,
                   also_used, counted, log, history, arg>>
    /\ UNCHANGED appVars

NextValidate == ApplyValidate

SpecValidate == InitValidate /\ [][NextValidate]_vars

----------------------------------------------------------------------------
(* parse_structured_feedback applied to marker blocks built from id lists *)

MaxIds == 2

\* Ids as token sequences: two plain ids, the empty string, an id with a
\* leading blank, one with a trailing blank and one holding a newline.
Ids ==
    {<<"t1">>, <<"t2">>, <<>>, <<" ", "t1">>, <<"t2", " ">>, <<"t1", "\n", "t2">>}

IdLists == UNION {[1..n -> Ids] : n \in 1..MaxIds}

\* ','.join(ids)
RECURSIVE JoinComma(_)
JoinComma(ids) ==
    IF Len(ids) = 1 THEN ids[1]
    ELSE ids[1] \o <<",">> \o JoinComma(Tail(ids))

\* f"[TENETS]\nStrengths: {','.join(S)}\nImprovements: {','.join(I)}\n[/TENETS]"
MarkerBlock(S, I) ==
    <<"[TENETS]", "\n", "Strengths:", " ">> \o JoinComma(S)
    \o <<"\n", "Improvements:", " ">> \o JoinComma(I)
    \o <<"\n", "[/TENETS]">>

InitParse ==
    /\ file = CorruptFile
    /\ ImportIdle
    /\ AppIdle
    /\ arg \in [S : IdLists, I : IdLists]
    /\ ret = <<>>

ApplyParse ==
    /\ ret = <<>>
    /\ ret' = <<parse_structured_feedback(
                   [t |-> "str", v |-> MarkerBlock(arg.S, arg.I)])>>
    /\ UNCHANGED <<file, store, pending, store0, pc, idx, col_mapping, result,
                   also_used, counted, log, history, arg>>
    /\ UNCHANGED appVars

NextParse == ApplyParse

SpecParse == InitParse /\ [][NextParse]_vars

----------------------------------------------------------------------------
(* parse_structured_feedback applied to texts with prose around the block *)

\* A Strengths section, an Areas for Improvement section, the latter with
\* its label lacking the colon, and plain text.
ProseParts ==
    {<<>>,
     <<"\n">>,
     <<"\n", "Strengths:", " ", "clear", " ", "writing", "\n">>,
     <<"strength:", "helpful">>,
     <<"\n", "Areas for Improvement:", " ", "slow", " ", "reviews", "\n">>,
     <<"Area for Improvement", " ", "-", " ", "estimates">>,
     <<"Thanks!">>}

\* What stands where the marker block is expected: a block, a block with an
\* empty Improvements list, or nothing.
ProseBlocks ==
    {MarkerBlock(<<<<"t1">>, <<"t2">>>>, <<<<"t4">>>>),
     <<"[tenets]", "Strengths:", "t1", "\n", "Improvements:", "\n", "[/tenets]">>,
     <<>>}

ProseTexts ==
    {[t |-> "str", v |-> before \o block \o a \o b] :
        before \in {<<>>, <<"Strengths:", " ", "early", "\n">>,
                    <<"Areas for Improvement:", " ", "early", "\n">>},
        block \in ProseBlocks, a \in ProseParts, b \in ProseParts}

InitProse ==
    /\ file = CorruptFile
    /\ ImportIdle
    /\ AppIdle
    /\ arg \in ProseTexts
    /\ ret = <<>>

\* The fields a record built around the text has after
\* parse_structured_feedback().
ApplyProse ==
    /\ ret = <<>>
    /\ ret' = <<[ids |-> parse_structured_feedback(arg),
                 prose |-> prose_fields(arg)]>>
    /\ UNCHANGED <<file, store, pending, store0, pc, idx, col_mapping, result,
                   also_used, counted, log, history, arg>>
    /\ UNCHANGED appVars

NextProse == ApplyProse

SpecProse == InitProse /\ [][NextProse]_vars

----------------------------------------------------------------------------
(* get_available_date_ranges applied to stores of its own *)

MaxStored == 3

\* extract('year', date) and extract('month', date) on the timestamps of
\* the model.
DateParts ==
    [ts \in {"2024-12-30T09:00:00", "2025-01-10T00:00:00",
             "2025-01-31T23:59:59", "2025-02-03T00:00:00"} |->
        IF ts = "2024-12-30T09:00:00" THEN [year |-> 2024, month |-> 12]
        ELSE IF ts = "2025-02-03T00:00:00" THEN [year |-> 2025, month |-> 2]
        ELSE [year |-> 2025, month |-> 1]]

\* .filter(WorkdayFeedback.date.isnot(None))
Dated(tbl) == {r \in tbl : r.date # None}

\* .group_by(year, month): the groups, each with func.count(id).
DateGroups(tbl) ==
    {[year |-> DateParts[r.date[1]].year, month |-> DateParts[r.date[1]].month,
      count |-> Cardinality({q \in Dated(tbl) :
                                DateParts[q.date[1]] = DateParts[r.date[1]]})] :
        r \in Dated(tbl)}

\* g comes before h under ORDER BY year ASC, month ASC.
OrderedBefore_ascending(g, h) ==
    g.year < h.year \/ (g.year = h.year /\ g.month <= h.month)

\* g comes before h under ORDER BY year DESC, month DESC.
OrderedBefore(g, h) ==
    g.year > h.year \/ (g.year = h.year /\ g.month >= h.month)

RECURSIVE OrderBy(_)
\* The groups as the rows of the ordered result.
OrderBy(groups) ==
    IF groups = {} THEN <<>>
    ELSE <<CHOOSE g \in groups : \A h \in groups : OrderedBefore(g, h)>>
         \o OrderBy(groups \ {CHOOSE g \in groups :
                                 \A h \in groups : OrderedBefore(g, h)})

\* [(int(r.year), int(r.month), r.count) for r in results]
get_available_date_ranges(tbl) ==
    [k \in 1..Len(OrderBy(DateGroups(tbl))) |->
        <<OrderBy(DateGroups(tbl))[k].year, OrderBy(DateGroups(tbl))[k].month,
          OrderBy(DateGroups(tbl))[k].count>>]

\* The date columns a store of up to MaxStored records can hold.
StoredDates == {None} \cup {Some(ts) : ts \in DOMAIN DateParts}

DateStores ==
    UNION {{ {Stored([NewRecord(BaseRow, Detected[Layouts_default].col_mapping)
                         EXCEPT !.date = d[i]], i) : i \in 1..n} :
               d \in [1..n -> StoredDates]} : n \in 0..MaxStored}

InitRanges ==
    /\ file = CorruptFile
    /\ store \in DateStores
    /\ store0 = store
    /\ pending = {}
    /\ pc = "idle" /\ idx = 0
    /\ col_mapping = NoMapping
    /\ result = NewResult
    /\ also_used = FALSE
    /\ counted = {}
    /\ log = <<>>
    /\ history = <<>>
    /\ AppIdle
    /\ arg = <<>> /\ ret = <<>>

ApplyRanges ==
    /\ ret = <<>>
    /\ ret' = <<get_available_date_ranges(store)>>
    /\ UNCHANGED <<file, store, pending, store0, pc, idx, col_mapping, result,
                   also_used, counted, log, history, arg>>
    /\ UNCHANGED appVars

NextRanges == ApplyRanges

SpecRanges == InitRanges /\ [][NextRanges]_vars

----------------------------------------------------------------------------
(* app.py: POST /api/feedback and DELETE /api/feedback/<to_user_id>, one   *)
(* request served at a time.                                               *)

MaxFeedbackId == 3

\* json.dumps of a list and json.loads of what it wrote.
json_dumps(x) == <<"json", x>>
json_loads(t) == t[2]

Users == {"u1", "u2"}

\* Request bodies: two that pass the counts, and one for each way to fail
\* them, each for no recipient and for either user.
PeerSelections ==
    { [strengths |-> <<"t1", "t2", "t3">>, improvements |-> <<"t4", "t5">>,
       strengths_text |-> "a", improvements_text |-> "b"],
      [strengths |-> <<"t2", "t3", "t4">>, improvements |-> <<"t1", "t5", "t6">>,
       strengths_text |-> "c", improvements_text |-> "d"],
      [strengths |-> <<"t1", "t2">>, improvements |-> <<"t4", "t5">>,
       strengths_text |-> "a", improvements_text |-> "b"],
      [strengths |-> <<"t1", "t2", "t3", "t4">>, improvements |-> <<"t5", "t6">>,
       strengths_text |-> "a", improvements_text |-> "b"],
      [strengths |-> <<"t1", "t2", "t3">>, improvements |-> <<"t4">>,
       strengths_text |-> "a", improvements_text |-> "b"],
      [strengths |-> <<"t1", "t2", "t3">>, improvements |-> <<"t4", "t5", "t6", "t7">>,
       strengths_text |-> "a", improvements_text |-> "b"] }

PeerBodies ==
    {[to_user_id |-> to, sel |-> x] :
        to \in {None} \cup {Some(u) : u \in Users}, x \in PeerSelections}

\* jsonify({"success": ...}), status
Response(status, ok) == [status |-> status, success |-> ok]

\* session.query(Feedback).filter_by(from_user_id=..., to_user_id=...)
FeedbackOf(tbl, from, to) ==
    {r \in tbl : r.from_user_id = from /\ r.to_user_id = to}

\* .first(): the row with the least rowid.
FirstRow(rows) == CHOOSE r \in rows : \A q \in rows : r.id <= q.id

\* set_strengths, set_improvements and the two texts on a Feedback row.
WithSelection(row, x) ==
    [row EXCEPT !.strengths = json_dumps(x.strengths),
                !.improvements = json_dumps(x.improvements),
                !.strengths_text = x.strengths_text,
                !.improvements_text = x.improvements_text]

NewFeedback(id, from, to) ==
    [id |-> id, from_user_id |-> from, to_user_id |-> to,
     strengths |-> None, improvements |-> None,
     strengths_text |-> None, improvements_text |-> None]

Saved(tbl, effect) ==
    [resp |-> Response(200, TRUE), effect |-> effect, tbl |-> tbl]

Rejected(tbl) ==
    [resp |-> Response(400, FALSE), effect |-> "none", tbl |-> tbl]

\* A variant of Upsert that never looks for the existing row.
Upsert_always_insert(tbl, from, to, x) ==
    Saved(tbl \cup {WithSelection(NewFeedback(NextId(tbl), from, to), x)},
          "created")

\* Lines 354-382: update the row of the pair, or add one; commit.
Upsert(tbl, from, to, x) ==
    IF FeedbackOf(tbl, from, to) # {}
    THEN Saved((tbl \ {FirstRow(FeedbackOf(tbl, from, to))})
               \cup {WithSelection(FirstRow(FeedbackOf(tbl, from, to)), x)},
               "updated")
    ELSE Saved(tbl \cup {WithSelection(NewFeedback(NextId(tbl), from, to), x)},
               "created")

\* A variant of save_feedback that does not count the improvements.
save_feedback_improvements_uncounted(sess, data, tbl) ==
    IF sess.user_id = None THEN Rejected(tbl)
    ELSE IF data.to_user_id = None THEN Rejected(tbl)
    ELSE IF Len(data.sel.strengths) # 3 THEN Rejected(tbl)
    ELSE Upsert(tbl, sess.user_id[1], data.to_user_id[1], data.sel)

save_feedback(sess, data, tbl) ==
    IF sess.user_id = None THEN Rejected(tbl)
    ELSE IF data.to_user_id = None THEN Rejected(tbl)
    ELSE IF Len(data.sel.strengths) # 3 THEN Rejected(tbl)
    ELSE IF Len(data.sel.improvements) < 2 \/ Len(data.sel.improvements) > 3
    THEN Rejected(tbl)
    ELSE Upsert(tbl, sess.user_id[1], data.to_user_id[1], data.sel)

delete_feedback(sess, to, tbl) ==
    IF sess.user_id = None THEN Rejected(tbl)
    ELSE IF FeedbackOf(tbl, sess.user_id[1], to) # {}
    THEN Saved(tbl \ {FirstRow(FeedbackOf(tbl, sess.user_id[1], to))}, "deleted")
    ELSE Saved(tbl, "none")

\* What a request leaves in last and in table feedback.
Served(op, data, out) ==
    /\ last' = [op |-> op, status |-> out.resp.status, effect |-> out.effect,
                data |-> data]
    /\ feedback_tbl' = out.tbl

ImportUntouched ==
    UNCHANGED <<file, store, pending, store0, pc, idx, col_mapping, result,
                also_used, counted, log, history, arg, ret>>

\* POST /api/set-user and GET /individual/<user_id>
SetUser ==
    /\ \E u \in Users :
           /\ flask_session' = [flask_session EXCEPT !.user_id = Some(u)]
           /\ last' = [op |-> "set_user", status |-> 200, effect |-> "none",
                       data |-> Some(u)]
    /\ UNCHANGED <<feedback_tbl, manager_tbl>>
    /\ ImportUntouched
    /\ UNCHANGED <<inflight, demo>>

\* GET /individual/switch
SwitchUser ==
    /\ flask_session' = [flask_session EXCEPT !.user_id = None]
    /\ last' = [op |-> "switch_user", status |-> 302, effect |-> "none",
                data |-> None]
    /\ UNCHANGED <<feedback_tbl, manager_tbl>>
    /\ ImportUntouched
    /\ UNCHANGED <<inflight, demo>>

SaveFeedback ==
    /\ \E data \in PeerBodies :
           /\ save_feedback(flask_session, data, feedback_tbl).effect = "created"
                  => NextId(feedback_tbl) <= MaxFeedbackId
           /\ Served("save", Some(data),
                     save_feedback(flask_session, data, feedback_tbl))
    /\ UNCHANGED <<flask_session, manager_tbl>>
    /\ ImportUntouched
    /\ UNCHANGED <<inflight, demo>>

DeleteFeedback ==
    /\ \E to \in Users :
           Served("delete", Some(to),
                  delete_feedback(flask_session, to, feedback_tbl))
    /\ UNCHANGED <<flask_session, manager_tbl>>
    /\ ImportUntouched
    /\ UNCHANGED <<inflight, demo>>

InitPeer ==
    /\ file = CorruptFile
    /\ ImportIdle
    /\ AppIdle
    /\ arg = <<>> /\ ret = <<>>

NextPeer ==
    \/ SetUser
    \/ SwitchUser
    \/ SaveFeedback
    \/ DeleteFeedback

SpecPeer == InitPeer /\ [][NextPeer]_vars

----------------------------------------------------------------------------
(* app.py: POST /api/manager-feedback *)

\* The ?name= arguments of the model and what .strip() makes of them.
StrippedName ==
    [n \in {"Ann Lee", " ann lee "} |-> IF n = "Ann Lee" THEN "Ann Lee" ELSE "ann lee"]

\* name.lower().strip() on the manager names a session can hold.
NormalizedName ==
    [n \in {"Ann Lee", "ann lee"} |-> "ann lee"]

\* name_to_user_id: 'wd_' and the first 8 hex digits of the SHA-1 of the
\* normalized name, kept as the normalized name it is computed from.
name_to_user_id(name) == "wd_" \o NormalizedName[name]

ManagerUids == {"m1"}
ManagerNames == DOMAIN StrippedName

\* Tenet lists a manager submits, one of them with a tenet twice.
TenetLists ==
    {<<>>, <<"t1", "t2">>, <<"t2", "t1", "t3">>, <<"t1", "t1", "t2">>}

ManagerBodies ==
    [team_member_uid : {None, Some("u1")},
     selected_strengths : TenetLists,
     selected_improvements : TenetLists,
     feedback_text : {"good"}]

\* set(list)
Elems(list) == {list[i] : i \in 1..Len(list)}

\* [t for t in list if t not in overlap]
Without(list, overlap) == SelectSeq(list, LAMBDA t : t \notin overlap)

\* session.query(ManagerFeedback).filter_by(manager_uid=..., team_member_uid=...)
ManagerFeedbackOf(tbl, manager, member) ==
    {r \in tbl : r.manager_uid = manager /\ r.team_member_uid = member}

\* Lines 1012-1036: update the row of the pair, or add one; commit.
UpsertManager(tbl, manager, member, strengths, improvements, text) ==
    IF ManagerFeedbackOf(tbl, manager, member) # {}
    THEN Saved((tbl \ {FirstRow(ManagerFeedbackOf(tbl, manager, member))})
               \cup {[FirstRow(ManagerFeedbackOf(tbl, manager, member)) EXCEPT
                        !.selected_strengths = json_dumps(strengths),
                        !.selected_improvements = json_dumps(improvements),
                        !.feedback_text = text]},
               "updated")
    ELSE Saved(tbl \cup {[id |-> NextId(tbl), manager_uid |-> manager,
                          team_member_uid |-> member,
                          selected_strengths |-> json_dumps(strengths),
                          selected_improvements |-> json_dumps(improvements),
                          feedback_text |-> text]},
               "created")

\* A variant of ExcludeOverlap that cleans the improvements only.
ExcludeOverlap_improvements_only(tbl, manager, data, overlap) ==
    UpsertManager(tbl, manager, data.team_member_uid[1],
                  data.selected_strengths,
                  Without(data.selected_improvements, overlap),
                  data.feedback_text)

\* Lines 1005-1010: the tenets of both lists are removed from both.
ExcludeOverlap(tbl, manager, data, overlap) ==
    UpsertManager(tbl, manager, data.team_member_uid[1],
                  Without(data.selected_strengths, overlap),
                  Without(data.selected_improvements, overlap),
                  data.feedback_text)

\* manager_uid or name_to_user_id(manager_name)
EffectiveManager(sess) ==
    IF sess.manager_uid # None THEN sess.manager_uid[1]
    ELSE name_to_user_id(sess.manager_name[1])

save_manager_feedback(sess, data, tbl) ==
    IF sess.manager_uid = None /\ sess.manager_name = None THEN Rejected(tbl)
    ELSE IF data.team_member_uid = None THEN Rejected(tbl)
    ELSE ExcludeOverlap(tbl, EffectiveManager(sess), data,
                        Elems(data.selected_strengths)
                            \cap Elems(data.selected_improvements))

\* GET /manager/<manager_uid> and POST /api/set-manager, for a manager that
\* is in table persons.
SetManager ==
    /\ \E m \in ManagerUids :
           /\ flask_session' = [flask_session EXCEPT !.manager_uid = Some(m)]
           /\ last' = [op |-> "set_manager", status |-> 200, effect |-> "none",
                       data |-> Some(m)]
    /\ UNCHANGED <<feedback_tbl, manager_tbl>>
    /\ ImportUntouched
    /\ UNCHANGED <<inflight, demo>>

\* GET /manager?name=...: the stripped name is kept, the uid is dropped.
SetManagerName ==
    /\ \E n \in ManagerNames :
           /\ flask_session' = [flask_session EXCEPT
                                   !.manager_name = Some(StrippedName[n]),
                                   !.manager_uid = None]
           /\ last' = [op |-> "manager_dashboard", status |-> 200,
                       effect |-> "none", data |-> Some(n)]
    /\ UNCHANGED <<feedback_tbl, manager_tbl>>
    /\ ImportUntouched
    /\ UNCHANGED <<inflight, demo>>

\* GET /manager/switch
SwitchManager ==
    /\ flask_session' = [flask_session EXCEPT !.manager_uid = None,
                                              !.manager_name = None]
    /\ last' = [op |-> "switch_manager", status |-> 302, effect |-> "none",
                data |-> None]
    /\ UNCHANGED <<feedback_tbl, manager_tbl>>
    /\ ImportUntouched
    /\ UNCHANGED <<inflight, demo>>

ServedManager(data, out) ==
    /\ last' = [op |-> "save_manager", status |-> out.resp.status,
                effect |-> out.effect, data |-> Some(data)]
    /\ manager_tbl' = out.tbl

SaveManagerFeedback ==
    /\ \E data \in ManagerBodies :
           ServedManager(data, save_manager_feedback(flask_session, data, manager_tbl))
    /\ UNCHANGED <<flask_session, feedback_tbl>>
    /\ ImportUntouched
    /\ UNCHANGED <<inflight, demo>>

InitManager ==
    /\ file = CorruptFile
    /\ ImportIdle
    /\ AppIdle
    /\ arg = <<>> /\ ret = <<>>

NextManager ==
    \/ SetManager
    \/ SetManagerName
    \/ SwitchManager
    \/ SaveManagerFeedback

SpecManager == InitManager /\ [][NextManager]_vars

----------------------------------------------------------------------------
(* app.py: POST /api/feedback handled by several gunicorn workers at once. *)
(* Every request has its own SQLAlchemy session on feedback.db; the SELECT  *)
(* of .first() and the INSERT or UPDATE with its COMMIT are each atomic in  *)
(* SQLite, and nothing holds the database between the two.                  *)

MaxRequests == 2

Requests == 1..MaxRequests

\* The requests that pass the checks of lines 334-352: a user in the
\* cookie session, a to_user_id, 3 strengths and 2 or 3 improvements.
AcceptedBodies ==
    {b \in PeerBodies :
        \A u \in Users :
            save_feedback([user_id |-> Some(u)], b, {}).resp.status = 200}

AcceptedRequests ==
    {[user |-> u, data |-> d, pc |-> "lookup", found |-> None] :
        u \in Users, d \in AcceptedBodies}

InitConcurrent ==
    /\ file = CorruptFile
    /\ ImportIdle
    /\ flask_session = [user_id |-> None, manager_uid |-> None, manager_name |-> None]
    /\ feedback_tbl = {}
    /\ manager_tbl = {}
    /\ last = [op |-> "none", status |-> 0, effect |-> "none", data |-> None]
    /\ inflight \in [Requests -> AcceptedRequests]
    /\ demo = DemoIdle
    /\ arg = <<>> /\ ret = <<>>

\* Lines 356-360: session.query(Feedback).filter_by(...).first()
Lookup(i) ==
    /\ inflight[i].pc = "lookup"
    /\ inflight' = [inflight EXCEPT
          ![i].pc = "write",
          ![i].found =
              IF FeedbackOf(feedback_tbl, inflight[i].user,
                            inflight[i].data.to_user_id[1]) = {} THEN None
              ELSE Some(FirstRow(FeedbackOf(feedback_tbl, inflight[i].user,
                                            inflight[i].data.to_user_id[1])).id)]
    /\ UNCHANGED <<flask_session, feedback_tbl, manager_tbl, last, demo>>
    /\ ImportUntouched

\* Lines 362-382 on what the lookup found: UPDATE of the row that was read,
\* or INSERT of a new one; COMMIT.
WriteFound(tbl, r) ==
    IF r.found # None
    THEN Saved({IF q.id = r.found[1] THEN WithSelection(q, r.data.sel) ELSE q :
                   q \in tbl},
               "updated")
    ELSE Saved(tbl \cup {WithSelection(NewFeedback(NextId(tbl), r.user,
                                                   r.data.to_user_id[1]),
                                       r.data.sel)},
               "created")

Write(i) ==
    /\ inflight[i].pc = "write"
    /\ inflight' = [inflight EXCEPT ![i].pc = "done"]
    /\ feedback_tbl' = WriteFound(feedback_tbl, inflight[i]).tbl
    /\ last' = [op |-> "save", status |-> 200,
                effect |-> WriteFound(feedback_tbl, inflight[i]).effect,
                data |-> Some(inflight[i].data)]
    /\ UNCHANGED <<flask_session, manager_tbl, demo>>
    /\ ImportUntouched

NextConcurrent ==
    \/ \E i \in Requests : Lookup(i)
    \/ \E i \in Requests : Write(i)

SpecConcurrent == InitConcurrent /\ [][NextConcurrent]_vars

----------------------------------------------------------------------------
(* demo_mode.py: get_session_engine on the request thread of a worker and  *)
(* cleanup_stale_sessions on its background thread, for one session id.    *)
(* get_session_engine takes no lock, so the steps of the two interleave at *)
(* every access to the module globals and to the file system.  now counts  *)
(* periods longer than SESSION_TIMEOUT_SECONDS.                            *)

MaxClock == 3
MaxCalls == 2

\* The rest of the demo state is as it was.
DemoOnly ==
    /\ UNCHANGED <<flask_session, feedback_tbl, manager_tbl, last, inflight>>
    /\ ImportUntouched

\* More than SESSION_TIMEOUT_SECONDS go by with no request in progress.
TimePasses ==
    /\ demo.req.pc = "idle"
    /\ demo.now < MaxClock
    /\ demo' = [demo EXCEPT !.now = @ + 1]
    /\ DemoOnly

\* A request for the session reaches get_session_engine.
CallGetSessionEngine ==
    /\ demo.req.pc = "idle"
    /\ demo.calls < MaxCalls
    /\ demo' = [demo EXCEPT !.calls = @ + 1,
                            !.req = [pc |-> "check", has_cached |-> FALSE,
                                     file_exists |-> FALSE, ret |-> None]]
    /\ DemoOnly

\* Lines 202-203: has_cached and file_exists are read.
CheckCached ==
    /\ demo.req.pc = "check"
    /\ demo' = [demo EXCEPT
          !.req.has_cached = (demo.engines # None),
          !.req.file_exists = demo.db_file,
          !.req.pc = IF demo.db_file THEN "revalidate" ELSE "init"]
    /\ DemoOnly

\* initialize_session_from_template, lines 97-149, with the template there:
\* the registered engine is disposed and removed, the mtime forgotten, the
\* template copied over the database file.
FromTemplate(d) ==
    [d EXCEPT !.disposed = IF d.engines = None THEN @ ELSE @ \cup {d.engines[1]},
              !.engines = None,
              !.db_mtime = None,
              !.db_file = TRUE,
              !.file_mtime = d.now,
              !.req.pc = "revalidate"]

\* Lines 205-210: the file was missing; the template is copied, or it is
\* not there and the copy fails.
InitFromTemplate ==
    /\ demo.req.pc = "init"
    /\ \/ demo' = FromTemplate(demo)
       \/ demo' = [demo EXCEPT !.req.pc = "revalidate"]
    /\ DemoOnly

\* del _session_engines[session_id] of lines 221 and 235: KeyError when the
\* entry is gone, else the engine was disposed just before.
DropEngine(d) ==
    IF d.engines = None THEN [d EXCEPT !.req.pc = "raised"]
    ELSE [d EXCEPT !.disposed = @ \cup {d.engines[1]},
                   !.engines = None,
                   !.req.has_cached = FALSE,
                   !.req.pc = "ensure"]

\* Lines 212-236: the cached engine is dropped when the file is missing or
\* newer than the tracked mtime (0 when none is tracked).
Revalidate ==
    /\ demo.req.pc = "revalidate"
    /\ demo' =
         IF ~demo.req.has_cached THEN [demo EXCEPT !.req.pc = "ensure"]
         ELSE IF ~demo.db_file
         THEN [DropEngine(demo) EXCEPT
                  !.db_mtime = IF demo.engines = None THEN @ ELSE None]
         ELSE IF demo.file_mtime > (IF demo.db_mtime = None THEN 0
                                    ELSE demo.db_mtime[1])
         THEN DropEngine(demo)
         ELSE [demo EXCEPT !.req.pc = "ensure"]
    /\ DemoOnly

\* Lines 238-257: an engine is created and registered when none is; creating
\* the schema creates a missing file; the file's mtime is tracked.
EnsureEngine ==
    /\ demo.req.pc = "ensure"
    /\ demo' =
         IF demo.engines # None THEN [demo EXCEPT !.req.pc = "touch"]
         ELSE [demo EXCEPT !.engines = Some(demo.made + 1),
                           !.made = @ + 1,
                           !.file_mtime = IF demo.db_file THEN @ ELSE demo.now,
                           !.db_file = TRUE,
                           !.db_mtime = Some(IF demo.db_file THEN demo.file_mtime
                                             ELSE demo.now),
                           !.req.pc = "touch"]
    /\ DemoOnly

\* Line 259: _session_last_access[session_id] = time.time()
TouchLastAccess ==
    /\ demo.req.pc = "touch"
    /\ demo' = [demo EXCEPT !.last_access = Some(demo.now), !.req.pc = "return"]
    /\ DemoOnly

\* Line 261: return _session_engines[session_id], KeyError when the entry
\* is gone.
ReturnEngine(d) ==
    IF d.engines = None THEN [d EXCEPT !.req.pc = "raised"]
    ELSE [d EXCEPT !.req.ret = d.engines, !.req.pc = "returned"]

Return ==
    /\ demo.req.pc = "return"
    /\ demo' = ReturnEngine(demo)
    /\ DemoOnly

\* The request is over, with a response or with the error.
EndRequest ==
    /\ demo.req.pc \in {"returned", "raised"}
    /\ demo' = [demo EXCEPT !.req.pc = "idle"]
    /\ DemoOnly

\* Lines 289-296, after time.sleep: the sessions whose last access is more
\* than SESSION_TIMEOUT_SECONDS ago are listed.
ScanStale ==
    /\ demo.cln.pc = "sleep"
    /\ demo' = [demo EXCEPT !.cln.pc =
                   IF demo.last_access # None /\ demo.now > demo.last_access[1]
                   THEN "dispose" ELSE "sleep"]
    /\ demo.cln.pc # demo'.cln.pc
    /\ DemoOnly

\* Lines 300-302: the engine is disposed and removed from the registry.
DisposeStale ==
    /\ demo.cln.pc = "dispose"
    /\ demo' = [demo EXCEPT
          !.disposed = IF demo.engines = None THEN @ ELSE @ \cup {demo.engines[1]},
          !.engines = None,
          !.cln.pc = "files"]
    /\ DemoOnly

\* Lines 305-306: _remove_session_files
RemoveFiles ==
    /\ demo.cln.pc = "files"
    /\ demo' = [demo EXCEPT !.db_file = FALSE, !.cln.pc = "untrack"]
    /\ DemoOnly

\* Lines 309-312: the session leaves _session_last_access and
\* _session_db_mtime.
Untrack ==
    /\ demo.cln.pc = "untrack"
    /\ demo' = [demo EXCEPT !.last_access = None, !.db_mtime = None,
                            !.cln.pc = "sleep"]
    /\ DemoOnly

InitDemo ==
    /\ file = CorruptFile
    /\ ImportIdle
    /\ AppIdle
    /\ arg = <<>> /\ ret = <<>>

NextDemo ==
    \/ TimePasses
    \/ CallGetSessionEngine
    \/ CheckCached
    \/ InitFromTemplate
    \/ Revalidate
    \/ EnsureEngine
    \/ TouchLastAccess
    \/ Return
    \/ EndRequest
    \/ ScanStale
    \/ DisposeStale
    \/ RemoveFiles
    \/ Untrack

SpecDemo == InitDemo /\ [][NextDemo]_vars

----------------------------------------------------------------------------
(* Properties of the import, under Spec *)

\* The current run went through the row loop and returned.
LoopReturned == pc = "done" /\ OpenStage(file).next = "rows"

\* C1: when the same file has been imported twice against the same store, the
\* second run reports imported = 0 and skipped_duplicates equal to what the
\* first run reported as imported.
C1_SecondRunImportsNothing ==
    Len(history) >= 2 =>
        /\ history[2].imported = 0
        /\ history[2].skipped_duplicates = history[1].imported

\* Equal natural keys, an absent value being equal to an absent value.
SameNaturalKey(r, s) ==
    /\ r.about = s.about /\ r.from_name = s.from_name
    /\ r.question = s.question /\ r.date = s.date

\* C2: the store never holds two records with the same natural key
\* (about, from_name, question, date), absent values counting as equal.
C2_NaturalKeyUnique ==
    \A r, s \in store : SameNaturalKey(r, s) => r = s

\* validate_row accepts data row i of the file.
RowAccepted(i) ==
    validate_row(file.rows[i], header_row + i, col_mapping, DEFAULT_CONFIG).is_valid

\* C3: once the loop has begun no row makes the call raise, a call that
\* returns has gone through every data row, and every row the validator
\* accepted was either imported or rejected by the store as a duplicate.
C3_RowFailureIsolation ==
    /\ pc # "raised"
    /\ LoopReturned => Len(log) = Len(file.rows)
    /\ pc \in {"rows", "done"} =>
           \A i \in 1..Len(log) :
               RowAccepted(i) => log[i] \in {"imported", "duplicate"}

\* C4: when the call returns after the loop, every row it counted as
\* imported is in the store, which grew by exactly result.imported records.
C4_CountedRowsAreStored ==
    LoopReturned =>
        /\ counted \subseteq store
        /\ Cardinality(store) = Cardinality(store0) + result.imported

\* C5: when the process is killed inside the loop, every row the run had
\* counted as imported is in the store afterwards.
C5_CrashKeepsCountedRows ==
    pc = "crashed" => counted \subseteq store

\* C6: a workbook that cannot be opened gives a returned result with the five
\* counters at zero, exactly one error and success False, and the store is
\* not written.
C6_OpenFailureCaptured ==
    (pc = "done" /\ ~file.ok) =>
        /\ result.imported = 0 /\ result.skipped_duplicates = 0
        /\ result.skipped_empty = 0
        /\ result.structured_count = 0 /\ result.generic_count = 0
        /\ Len(result.errors) = 1
        /\ ~success(result)
        /\ history # <<>> /\ history[Len(history)] = result
        /\ store = store0 /\ pending = {}

C6_OpenFailureReturned ==
    /\ pc = "done" /\ ~file.ok
    /\ result.errors = <<FileError("open_failed")>>

\* No header, trimmed and lowercased, equals or starts with a synonym of
\* from_name.
NoFromHeader(cells) ==
    \A i \in 1..Len(cells) :
        \A n \in column_headers.from_name : ~StartsWith(Strip(Lower(cells[i])), n)

\* C7: on a sheet without a From header the call returns without entering the
\* loop: success False, an error about the From/Provider column, every
\* counter zero, no row processed, the store unchanged.
C7_MissingFromColumn ==
    (pc \in {"rows", "done", "raised", "crashed"} /\ file.ok
        /\ NoFromHeader(file.headers)) =>
        /\ pc = "done"
        /\ ~success(result)
        /\ \E i \in 1..Len(result.errors) : result.errors[i].kind = "no_from_column"
        /\ result.imported = 0 /\ result.skipped_duplicates = 0
        /\ result.skipped_empty = 0
        /\ result.structured_count = 0 /\ result.generic_count = 0
        /\ idx = 0 /\ log = <<>>
        /\ history # <<>> /\ history[Len(history)] = result
        /\ store = store0 /\ pending = {}

C7_MissingFromReturned ==
    /\ pc = "done" /\ file.ok /\ NoFromHeader(file.headers)
    /\ Len(file.rows) >= 1
    /\ ~success(result)

\* C9: an iteration on a row whose from_name cell is empty or absent gets
\* (False, None) from validate_row and changes nothing but skipped_empty,
\* which grows by one, whatever about, asked_by and request_type hold.
C9_EmptyRowSilentSkip ==
    [][ ( /\ pc = "rows" /\ idx < Len(file.rows) /\ idx' = idx + 1
          /\ ~Truthy(get_cell_value(file.rows[idx + 1], col_mapping.from_name)) )
        => /\ validate_row(file.rows[idx + 1], header_row + 1 + idx, col_mapping,
                           DEFAULT_CONFIG) = [is_valid |-> FALSE, error |-> None]
           /\ result' = [result EXCEPT !.skipped_empty = @ + 1]
           /\ pending' = pending
           /\ pc' = "rows" ]_vars

\* A row without from_name whose about equals asked_by under the label for
\* requests by others has been skipped.
C9_InconsistentEmptyRowSkipped ==
    \E i \in 1..Len(log) :
        /\ log[i] = "empty"
        /\ file.rows[i] = [BaseRow EXCEPT ![2] = NoneCell, ![6] = OthersLabel]
        /\ col_mapping.about = Some(0) /\ col_mapping.from_name = Some(1)
        /\ col_mapping.asked_by = Some(4) /\ col_mapping.request_type = Some(5)
        /\ result.skipped_empty >= 1 /\ result.errors = <<>>

\* text[a..b] is a run of whitespace, then tokens of one line, then whitespace.
LineBetween(text, a, b) ==
    \E x, y \in (a - 1)..b :
        /\ x <= y
        /\ \A i \in a..x : IsSpace(text[i])
        /\ \A i \in (x + 1)..y : text[i] # "\n"
        /\ \A i \in (y + 1)..b : IsSpace(text[i])

\* The feedback cell holds text with a [TENETS] ... [/TENETS] block whose
\* Strengths line comes before its Improvements line, tags in any case.
HasMarkerBlock(fb) ==
    /\ fb.t = "str"
    /\ \E a, b, c, d \in 1..Len(fb.v) :
        /\ a < b /\ b < c /\ c < d
        /\ FoldCase(fb.v[a]) = "[tenets]" /\ FoldCase(fb.v[b]) = "strengths:"
        /\ FoldCase(fb.v[c]) = "improvements:" /\ FoldCase(fb.v[d]) = "[/tenets]"
        /\ \A i \in (a + 1)..(b - 1) : IsSpace(fb.v[i])
        /\ LineBetween(fb.v, b + 1, c - 1)
        /\ LineBetween(fb.v, c + 1, d - 1)

\* C12: every record an import flushed or committed is structured exactly
\* when its feedback holds a marker block with Strengths before
\* Improvements; an unstructured record has both id lists absent and a
\* structured one has both set.
C12_ClassificationInvariant ==
    \A r \in store \cup pending :
        /\ r.is_structured = 1 <=> HasMarkerBlock(r.feedback)
        /\ r.is_structured \in {0, 1}
        /\ r.is_structured = 0 => r.strengths = None /\ r.improvements = None
        /\ r.is_structured = 1 => r.strengths # None /\ r.improvements # None

C12_BothKindsStored ==
    /\ \E r \in store :
           /\ r.is_structured = 1
           /\ r.strengths = Some(<<(<<"t1">>), (<<"t2">>)>>)
           /\ r.improvements = Some(<<(<<"t4">>)>>)
    /\ \E r \in store : r.is_structured = 0 /\ r.feedback = Reversed

\* C13: success is true exactly when errors is empty; in a run that entered
\* the loop that is exactly when no row was rejected with a hard error,
\* whatever the warnings, duplicates, empty rows and imported rows.
C13_SuccessDerived ==
    /\ success(result) <=> result.errors = <<>>
    /\ (pc \in {"rows", "done"} /\ OpenStage(file).next = "rows") =>
           (success(result) <=> \A i \in 1..Len(log) : log[i] # "error")

C13_ErrorAmongImportedRows ==
    /\ LoopReturned
    /\ ~success(result)
    /\ Len(result.errors) = 1
    /\ result.imported = 1

\* The date cell of the data row the loop is at.
DateCellAtIdx == get_cell_value(file.rows[idx + 1], col_mapping.date)

IsTimestamp(cell) == cell.t = "dt"
IsIsoText(cell) ==
    cell.t = "str" /\ Len(cell.v) = 1 /\ cell.v[1] \in DOMAIN IsoTable

\* The iteration on the row at idx ended and counted the row as imported.
RowImported ==
    /\ pc = "rows" /\ idx < Len(file.rows)
    /\ Len(log') = Len(log) + 1
    /\ log'[Len(log')] = "imported"

\* The row at idx passes validate_row and its feedback cell can be parsed.
RowInsertable ==
    /\ pc = "rows" /\ idx < Len(file.rows)
    /\ RowAccepted(idx + 1)
    /\ ~SearchRaises(get_cell_value(file.rows[idx + 1], col_mapping.feedback))

\* C17: the record of an imported row holds the timestamp of a date cell
\* that is a timestamp or an ISO text, and no date for any other cell; an
\* iteration on a valid row whose date cell cannot be read adds nothing to
\* errors and counts the row as imported.
C17_DateCellLeniency ==
    [][ /\ RowImported =>
              /\ Cardinality(pending' \ pending) = 1
              /\ pending' \ pending \subseteq counted'
              /\ \A r \in pending' \ pending :
                    r.date = IF IsTimestamp(DateCellAtIdx) THEN Some(DateCellAtIdx.v[1])
                             ELSE IF IsIsoText(DateCellAtIdx)
                             THEN Some(IsoTable[DateCellAtIdx.v[1]])
                             ELSE None
        /\ (RowInsertable /\ idx' = idx + 1
                /\ ~IsTimestamp(DateCellAtIdx) /\ ~IsIsoText(DateCellAtIdx)) =>
              /\ result'.errors = result.errors
              /\ log'[Len(log')] = "imported" ]_vars

\* Rows with the dates "next week" and 45000 were imported without a date.
C17_UnreadableDatesImported ==
    /\ LoopReturned /\ Len(file.rows) = 2
    /\ get_cell_value(file.rows[1], col_mapping.date) = StrCell("next week")
    /\ get_cell_value(file.rows[2], col_mapping.date) = NumCell("45000")
    /\ log = <<"imported", "imported">>
    /\ \A r \in counted : r.date = None
    /\ Len(result.errors) = 0

\* Data row i was counted as imported and its date cell holds something that
\* is neither a timestamp nor an ISO text.
UnreadableDateImported(i) ==
    /\ log[i] = "imported"
    /\ Truthy(get_cell_value(file.rows[i], col_mapping.date))
    /\ ~IsTimestamp(get_cell_value(file.rows[i], col_mapping.date))
    /\ ~IsIsoText(get_cell_value(file.rows[i], col_mapping.date))

\* The warnings a returned run has from opening the file and from the two
\* checks after the loop.
WarningsOutsideRows ==
    Len(OpenStage(file).result.warnings)
        + (IF result.skipped_empty > 0 THEN 1 ELSE 0)
        + (IF also_used THEN 1 ELSE 0)

\* C18: a run that imported a row whose date cell is present and cannot be
\* read returns with a warning for it, next to the warnings of the file and
\* of the checks after the loop, and with no error for it.
C18_UnparseableDateWarned ==
    (LoopReturned /\ \E i \in 1..Len(log) : UnreadableDateImported(i)) =>
        /\ Len(result.warnings) > WarningsOutsideRows
        /\ Len(result.errors) =
              Cardinality({i \in 1..Len(log) : log[i] = "error"})

\* result.warnings has the entry w.
Warned(w) == \E k \in 1..Len(result.warnings) : result.warnings[k] = w

\* Data row i has something in the "feedback also given to" column.
AlsoGivenTo(i) ==
    /\ col_mapping.feedback_also_given_to # None
    /\ col_mapping.feedback_also_given_to[1] < Len(file.rows[i])
    /\ file.rows[i][col_mapping.feedback_also_given_to[1] + 1].t # "none"

\* C19: a run that returns after the row loop has the warning on empty rows
\* exactly when it skipped a row as empty, and the warning on the
\* unsupported column exactly when a data row, whatever became of it, has a
\* value in the "feedback also given to" column.
C19_PostLoopWarnings ==
    LoopReturned =>
        /\ Warned("skipped_empty_rows") <=> result.skipped_empty > 0
        /\ Warned("skipped_empty_rows") <=> \E i \in 1..Len(log) : log[i] = "empty"
        /\ Warned("also_given_to_unsupported")
              <=> \E i \in 1..Len(file.rows) : AlsoGivenTo(i)

\* The only row with a value in the column was skipped as empty, the other
\* row was rejected with an error, and both warnings are there.
C19_WarnedForSkippedRow ==
    /\ LoopReturned
    /\ result.imported = 0
    /\ \E i \in 1..Len(log) : log[i] = "empty" /\ AlsoGivenTo(i)
    /\ \E i \in 1..Len(log) : log[i] = "error" /\ ~AlsoGivenTo(i)
    /\ Warned("skipped_empty_rows") /\ Warned("also_given_to_unsupported")

\* The fields, of from_name and about, that detect_columns left absent on
\* the file's header row.
MissingMandatory ==
    {f \in {"from_name", "about"} : Detected[file.headers].col_mapping[f] = None}

\* result.errors has exactly one entry of kind k.
OneError(k) ==
    Cardinality({i \in 1..Len(result.errors) : result.errors[i].kind = k}) = 1

\* C21: a call on a readable file whose header row lacks the from_name or
\* the about column returns with no row processed and one fatal error for
\* each of the two fields that is missing: two errors when both are.
C21_FatalErrorPerMissingField ==
    (pc \in {"rows", "done", "raised", "crashed"} /\ file.ok
        /\ MissingMandatory # {}) =>
        /\ pc = "done"
        /\ idx = 0 /\ log = <<>>
        /\ Len(result.errors) = Cardinality(MissingMandatory)
        /\ "from_name" \in MissingMandatory => OneError("no_from_column")
        /\ "about" \in MissingMandatory => OneError("no_about_column")

\* C25: at every point of a run, and when it has returned, was aborted at
\* the open or column stage, raised or was killed, every record that was in
\* the store when the run began is in the store with the same id and the
\* same field values; a run that does not reach the row loop leaves the
\* store as it was.
C25_ExistingRecordsUntouched ==
    /\ store0 \subseteq store
    /\ \A r \in store0 : Cardinality({q \in store : q.id = r.id}) = 1
    /\ (pc = "done" /\ ~LoopReturned) => store = store0

\* A second run added records to a store that held records of the first.
C25_SecondRunAddedRecords ==
    /\ LoopReturned
    /\ Len(history) = 2
    /\ store0 # {}
    /\ store0 \subseteq store /\ store # store0

\* How many of the rows processed so far ended as outcome.
Outcomes(outcome) == Cardinality({i \in 1..Len(log) : log[i] = outcome})

\* C26: in a run that reached the row loop every processed row is counted
\* once, as imported, as a duplicate, as empty or with an entry in errors,
\* so that on return the four add up to the number of data rows; imported
\* is structured_count + generic_count.
C26_RowAccounting ==
    (pc \in {"rows", "done"} /\ OpenStage(file).next = "rows") =>
        /\ result.imported = Outcomes("imported")
        /\ result.skipped_duplicates = Outcomes("duplicate")
        /\ result.skipped_empty = Outcomes("empty")
        /\ Len(result.errors) = Outcomes("error")
        /\ result.imported + result.skipped_duplicates + result.skipped_empty
              + Len(result.errors) = idx
        /\ pc = "done" => idx = Len(file.rows)
        /\ result.imported = result.structured_count + result.generic_count

\* A structured row, then the same row again: one imported, one duplicate.
C26_ImportedAndDuplicate ==
    /\ LoopReturned
    /\ Len(file.rows) = 2
    /\ result.imported = 1 /\ result.structured_count = 1
    /\ result.skipped_duplicates = 1

\* The record built from the row the loop is at.
RecordAtIdx == NewRecord(file.rows[idx + 1], col_mapping)

\* C27: an iteration increments skipped_duplicates only when the store, the
\* rows of this run included, holds a record with the natural key
\* (about, from_name, question, date) of the row.
C27_DuplicatesAreKeyCollisions ==
    [][ (pc = "rows" /\ idx < Len(file.rows)
            /\ result'.skipped_duplicates > result.skipped_duplicates) =>
          \E q \in store \cup pending : SameNaturalKey(RecordAtIdx, q) ]_vars

----------------------------------------------------------------------------
(* Properties of validate_row, under SpecValidate *)

\* A cell that holds a value other than "".
Present(c) == c # NoneCell /\ c # EmptyStrCell

\* about, asked_by and request_type are all present and request_type is not
\* the label that about = asked_by calls for.
Inconsistent(about, asked_by, request_type) ==
    /\ Present(about) /\ Present(asked_by) /\ Present(request_type)
    /\ \/ about = asked_by /\ request_type # StrCell(request_types.self)
       \/ about # asked_by /\ request_type # StrCell(request_types.others)

\* C8: for a row with non-empty from_name, validate_row returns a hard error
\* exactly when the three cells are inconsistent, and (True, None) otherwise.
C8_ValidateRowConsistency ==
    (ret # <<>> /\ Present(get_cell_value(arg.row, arg.m.from_name))) =>
        IF Inconsistent(get_cell_value(arg.row, arg.m.about),
                        get_cell_value(arg.row, arg.m.asked_by),
                        get_cell_value(arg.row, arg.m.request_type))
        THEN ret[1].error # None /\ ~ret[1].is_valid
        ELSE ret[1] = [is_valid |-> TRUE, error |-> None]

C8_InconsistentRowRejected ==
    /\ ret # <<>>
    /\ Present(get_cell_value(arg.row, arg.m.from_name))
    /\ get_cell_value(arg.row, arg.m.about) = get_cell_value(arg.row, arg.m.asked_by)
    /\ ret[1].error # None

----------------------------------------------------------------------------
(* Properties of detect_columns, under SpecDetect *)

Trimmed(h) == Strip(Lower(h))

\* The 0-based index of the leftmost column of S, None when S is empty.
Leftmost(S) == IF S = {} THEN None ELSE Some(SetMin(S) - 1)

ExactCols(cells, f) ==
    {i \in 1..Len(cells) : Trimmed(cells[i]) \in column_headers[f]}

PrefixCols(cells, f) ==
    {i \in 1..Len(cells) :
        /\ ~Contains(Trimmed(cells[i]), s_photo)
        /\ \E n \in column_headers[f] : StartsWith(Trimmed(cells[i]), n)}

\* The leftmost exact header; only if there is none, the leftmost prefix
\* header that is no photo column; otherwise absent.
TwoPass(cells, f) ==
    IF ExactCols(cells, f) # {} THEN Leftmost(ExactCols(cells, f))
    ELSE Leftmost(PrefixCols(cells, f))

NamedCols(cells) ==
    {i \in 1..Len(cells) :
        Trimmed(cells[i]) # <<>> /\ ~Contains(Trimmed(cells[i]), s_photo)}

\* C10 as stated: every required field is mapped by the two passes, and is
\* absent when neither finds a header.
C10_TwoPassOrAbsent ==
    ret # <<>> =>
        \A f \in RequiredFields : ret[1].col_mapping[f] = TwoPass(arg, f)

\* C10: every required field is mapped by the two passes and absent when
\* neither finds a header, except about, which is then mapped to the leftmost
\* non-empty header that is no photo column; <<About Photo, About>> and
\* <<About Photo, Recipient>> both map about to the second column.
C10_TwoPassThenAboutFallback ==
    ret # <<>> =>
        /\ \A f \in RequiredFields \ {"about"} :
               ret[1].col_mapping[f] = TwoPass(arg, f)
        /\ ret[1].col_mapping.about =
               IF TwoPass(arg, "about") # None THEN TwoPass(arg, "about")
               ELSE Leftmost(NamedCols(arg))
        /\ arg = <<H_About_Photo, H_About>> => ret[1].col_mapping.about = Some(1)
        /\ arg = <<H_About_Photo, H_Recipient>> => ret[1].col_mapping.about = Some(1)

C10_PhotoColumnPassedOver ==
    /\ ret # <<>>
    /\ arg = <<H_About_Photo, H_Recipient>>
    /\ ret[1].col_mapping.about = Some(1)

\* How many times detect_columns returned the warning w.
TimesWarned(w) ==
    Cardinality({k \in 1..Len(ret[1].warnings) : ret[1].warnings[k] = w})

\* C20: when the two passes find no about column, about is the leftmost
\* non-empty header that is no photo column and there is one warning for it;
\* when they find no from_name or no feedback column, the field stays absent
\* and there is one warning for it.
C20_DetectorPostPass ==
    ret # <<>> =>
        /\ TwoPass(arg, "about") = None =>
               /\ ret[1].col_mapping.about = Leftmost(NamedCols(arg))
               /\ TimesWarned("about_fallback") = 1
        /\ TwoPass(arg, "from_name") = None =>
               /\ ret[1].col_mapping.from_name = None
               /\ TimesWarned("no_from_column") = 1
        /\ TwoPass(arg, "feedback") = None =>
               /\ ret[1].col_mapping.feedback = None
               /\ TimesWarned("no_feedback_column") = 1
        /\ Len(ret[1].warnings) =
               Cardinality({f \in {"about", "from_name", "feedback"} :
                               TwoPass(arg, f) = None})

\* <<About Photo, Name>>: about falls back to the second column, the other
\* two fields stay absent, three warnings.
C20_FallbackPastPhoto ==
    /\ ret # <<>>
    /\ arg = <<H_About_Photo, H_Name>>
    /\ ret[1].col_mapping.about = Some(1)
    /\ ret[1].col_mapping.from_name = None
    /\ ret[1].col_mapping.feedback = None
    /\ ret[1].warnings = <<"about_fallback", "no_from_column", "no_feedback_column">>

\* C28: the mapping detect_columns returns never has about and from_name at
\* the same column, whether about comes from the two passes or from the
\* fallback.
C28_MandatoryColumnsDistinct ==
    (ret # <<>> /\ ret[1].col_mapping.about # None
        /\ ret[1].col_mapping.from_name # None) =>
        ret[1].col_mapping.about # ret[1].col_mapping.from_name

----------------------------------------------------------------------------
(* Properties of parse_structured_feedback, under SpecParse *)

\* The block built from S and I is found and the two id lists come back.
RoundTrips ==
    ret[1] = [is_structured |-> 1, strengths |-> Some(arg.S),
              improvements |-> Some(arg.I)]

\* An id that is not empty, holds no newline and neither begins nor ends
\* with whitespace.
CleanId(id) ==
    /\ id # <<>>
    /\ \A i \in 1..Len(id) : id[i] # "\n"
    /\ ~IsSpace(id[1]) /\ ~IsSpace(id[Len(id)])

CleanIds(ids) == \A i \in 1..Len(ids) : CleanId(ids[i])

\* C11 as stated: the marker block built from any non-empty lists S and I of
\* comma-free ids is parsed as structured with strength ids S and
\* improvement ids I.
C11_RoundTripAnyIds ==
    ret # <<>> => RoundTrips

\* C11: the marker block built from non-empty lists S and I of ids that are
\* non-empty, comma-free, newline-free and without surrounding whitespace is
\* parsed as structured with strength ids S and improvement ids I, in order.
C11_RoundTripCleanIds ==
    (ret # <<>> /\ CleanIds(arg.S) /\ CleanIds(arg.I)) => RoundTrips

C11_TwoIdsRoundTripped ==
    /\ ret # <<>>
    /\ arg.S = <<(<<"t1">>), (<<"t2">>)>> /\ arg.I = <<(<<"t2">>), (<<"t1">>)>>
    /\ RoundTrips

\* The ids, trimmed, without the ones that are empty then, in their order.
Normalised(ids) ==
    SelectSeq([i \in 1..Len(ids) |-> Strip(ids[i])], LAMBDA id : id # <<>>)

NewlineFree(ids) ==
    \A i \in 1..Len(ids) : \A k \in 1..Len(ids[i]) : ids[i][k] # "\n"

\* C24: when the block built from the lists S and I is found, the record is
\* structured and its id lists are the ids of S and of I trimmed, the empty
\* ones left out, in their order and with their duplicates; lists without a
\* newline always make a block that is found, a list of empty ids included.
C24_IdListNormalisation ==
    ret # <<>> =>
        /\ ret[1].is_structured = 1 =>
              /\ ret[1].strengths = Some(Normalised(arg.S))
              /\ ret[1].improvements = Some(Normalised(arg.I))
        /\ (NewlineFree(arg.S) /\ NewlineFree(arg.I)) => ret[1].is_structured = 1

\* "Strengths: t2 ,t2" and "Improvements: " give [t2, t2] and [].
C24_DuplicatesKeptEmptyListStored ==
    /\ ret # <<>>
    /\ arg.S = <<<<"t2", " ">>, <<"t2">>>>
    /\ arg.I = <<<<>>>>
    /\ ret[1] = [is_structured |-> 1, strengths |-> Some(<<<<"t2">>, <<"t2">>>>),
                 improvements |-> Some(<<>>)]

----------------------------------------------------------------------------
(* Properties of the peer feedback API, under SpecPeer *)

SamePair(r, q) ==
    r.from_user_id = q.from_user_id /\ r.to_user_id = q.to_user_id

\* The step serves a POST /api/feedback that answers 200.
SaveAccepted == last'.op = "save" /\ last'.status = 200

\* The rows of the pair the accepted save is for, before and after it.
PairBefore ==
    {r \in feedback_tbl : r.from_user_id = flask_session.user_id[1]
                          /\ r.to_user_id = last'.data[1].to_user_id[1]}
PairAfter ==
    {r \in feedback_tbl' : r.from_user_id = flask_session.user_id[1]
                           /\ r.to_user_id = last'.data[1].to_user_id[1]}

\* C14: the table never holds two rows for one (from_user_id, to_user_id);
\* an accepted save for a pair that has a row rewrites that row and adds
\* none, and one for a pair without a row, as after a delete, adds exactly
\* one row with the submitted selection.
C14_OneFeedbackPerPair ==
    /\ [](\A r, q \in feedback_tbl : SamePair(r, q) => r = q)
    /\ [][ SaveAccepted =>
             /\ feedback_tbl' \ PairAfter = feedback_tbl \ PairBefore
             /\ Cardinality(PairAfter) = 1
             /\ \A r \in PairAfter :
                   /\ json_loads(r.strengths) = last'.data[1].sel.strengths
                   /\ json_loads(r.improvements) = last'.data[1].sel.improvements
                   /\ \A q \in PairBefore : q.id = r.id
             /\ Cardinality(feedback_tbl') =
                   Cardinality(feedback_tbl) + (IF PairBefore = {} THEN 1 ELSE 0)
         ]_vars

\* A pair's row was rewritten by a second save while another pair has a row.
C14_RowUpdatedInPlace ==
    /\ last.op = "save" /\ last.effect = "updated"
    /\ Cardinality(feedback_tbl) = 2

\* The request has no user in the session, no to_user_id, a number of
\* strengths other than 3 or a number of improvements outside 2..3.
PeerInvalid(sess, data) ==
    \/ sess.user_id = None
    \/ data.to_user_id = None
    \/ Len(data.sel.strengths) # 3
    \/ Len(data.sel.improvements) \notin 2..3

\* C15: a POST /api/feedback without a session user, without to_user_id or
\* with a wrong number of strengths or improvements answers 400 with
\* success false and leaves table feedback as it was.
C15_RejectedSaveChangesNothing ==
    [][ (last'.op = "save" /\ PeerInvalid(flask_session, last'.data[1])) =>
            /\ last'.status = 400
            /\ last'.effect = "none"
            /\ feedback_tbl' = feedback_tbl ]_vars

C15_RejectedWithRowsStored ==
    /\ last.op = "save" /\ last.status = 400
    /\ flask_session.user_id # None /\ last.data[1].to_user_id # None
    /\ Len(last.data[1].sel.strengths) = 3
    /\ feedback_tbl # {}

----------------------------------------------------------------------------
(* Properties of the manager feedback API, under SpecManager *)

\* list with the tenets of other left out, the rest in the order of list.
OnlyIn(list, other) ==
    SelectSeq(list, LAMBDA t : \A i \in 1..Len(other) : other[i] # t)

\* The rows the accepted request wrote for its manager and team member.
ManagerRowsAfter ==
    {r \in manager_tbl' :
        /\ r.team_member_uid = last'.data[1].team_member_uid[1]
        /\ r.manager_uid = EffectiveManager(flask_session)}

\* C16: after a POST /api/manager-feedback that answers 200 the row of the
\* manager and team member holds disjoint lists: each is the submitted list
\* without the tenets submitted in both, in the submitted order.
C16_ManagerListsDisjoint ==
    [][ (last'.op = "save_manager" /\ last'.status = 200) =>
            /\ Cardinality(ManagerRowsAfter) = 1
            /\ \A r \in ManagerRowsAfter :
                  /\ Elems(json_loads(r.selected_strengths))
                        \cap Elems(json_loads(r.selected_improvements)) = {}
                  /\ json_loads(r.selected_strengths) =
                        OnlyIn(last'.data[1].selected_strengths,
                               last'.data[1].selected_improvements)
                  /\ json_loads(r.selected_improvements) =
                        OnlyIn(last'.data[1].selected_improvements,
                               last'.data[1].selected_strengths) ]_vars

\* <<t2, t1, t3>> and <<t1, t1, t2>> were submitted and only t3 is stored.
C16_OverlapRemoved ==
    /\ last.op = "save_manager" /\ last.status = 200
    /\ last.data[1].selected_strengths = <<"t2", "t1", "t3">>
    /\ last.data[1].selected_improvements = <<"t1", "t1", "t2">>
    /\ \E r \in manager_tbl :
          /\ json_loads(r.selected_strengths) = <<"t3">>
          /\ json_loads(r.selected_improvements) = <<>>

----------------------------------------------------------------------------
(* Properties of get_available_date_ranges, under SpecRanges *)

\* The year and month of the date of a stored record.
MonthOf(r) == <<DateParts[r.date[1]].year, DateParts[r.date[1]].month>>

RECURSIVE SumCounts(_)
SumCounts(rows) ==
    IF rows = <<>> THEN 0 ELSE Head(rows)[3] + SumCounts(Tail(rows))

\* C22: the result of get_available_date_ranges has one row for each
\* (year, month) of a stored date, with the number of records of that
\* month, in strictly descending order of (year, month); records without a
\* date are left out, the counts add up to the number of dated records, and
\* the store is as it was.
C22_DateRangesOfStore ==
    ret # <<>> =>
        /\ \A r \in store : r.date # None =>
              \E k \in 1..Len(ret[1]) : <<ret[1][k][1], ret[1][k][2]>> = MonthOf(r)
        /\ \A k \in 1..Len(ret[1]) :
              ret[1][k][3] =
                 Cardinality({r \in store :
                     r.date # None /\ MonthOf(r) = <<ret[1][k][1], ret[1][k][2]>>})
        /\ \A k \in 1..Len(ret[1]) : ret[1][k][3] > 0
        /\ \A k \in 1..(Len(ret[1]) - 1) :
              \/ ret[1][k][1] > ret[1][k + 1][1]
              \/ ret[1][k][1] = ret[1][k + 1][1] /\ ret[1][k][2] > ret[1][k + 1][2]
        /\ SumCounts(ret[1]) = Cardinality({r \in store : r.date # None})
        /\ store = store0

\* Two records of January 2025 and one of December 2024 are stored: January
\* comes first, with count 2.
C22_TwoMonthsListed ==
    /\ ret # <<>>
    /\ Cardinality(store) = 3
    /\ ret[1] = <<<<2025, 1, 2>>, <<2024, 12, 1>>>>

----------------------------------------------------------------------------
(* Properties of the prose extraction, under SpecProse *)

\* The position of the token that closes the first marker block of arg.
BlockEnd == MarkerSearch(arg.v)[1].end

\* The positions after the block of the labels of the two sections.
StrengthLabels == {i \in (BlockEnd + 1)..Len(arg.v) : IsStrengthLabel(arg.v[i])}
AreaColonLabels == {i \in (BlockEnd + 1)..Len(arg.v) : IsAreaColonLabel(arg.v[i])}

\* Where the strengths section that begins at label s ends.
SectionEnd(s) ==
    IF \E j \in (s + 1)..Len(arg.v) : IsAreaLabel(arg.v[j])
    THEN SetMin({j \in (s + 1)..Len(arg.v) : IsAreaLabel(arg.v[j])}) - 1
    ELSE Len(arg.v)

\* C23: on a text with a marker block, strengths_text is the trimmed text
\* between the first Strength(s): label after the block and the next
\* Area(s) for Improvement label or the end, improvements_text the trimmed
\* text from the first Area(s) for Improvement: label after the block to the
\* end; a section that has no label after the block leaves its field unset,
\* and the record is structured with its id lists all the same.  On a text
\* without a block both fields are unset.
C23_ProseAfterMarkerBlock ==
    ret # <<>> =>
        IF MarkerSearch(arg.v) = None
        THEN /\ ret[1].prose = [strengths_text |-> None, improvements_text |-> None]
             /\ ret[1].ids.is_structured = 0
        ELSE /\ ret[1].ids.is_structured = 1
             /\ ret[1].ids.strengths # None /\ ret[1].ids.improvements # None
             /\ ret[1].prose.strengths_text =
                   IF StrengthLabels = {} THEN None
                   ELSE Some(Strip(SubSeq(arg.v, SetMin(StrengthLabels) + 1,
                                          SectionEnd(SetMin(StrengthLabels)))))
             /\ ret[1].prose.improvements_text =
                   IF AreaColonLabels = {} THEN None
                   ELSE Some(Strip(SubSeq(arg.v, SetMin(AreaColonLabels) + 1,
                                          Len(arg.v))))

\* A Strengths section stands before the block and both sections after it:
\* the prose is that of the sections after the block.
C23_ProseBeforeBlockIgnored ==
    /\ ret # <<>>
    /\ Len(arg.v) >= 3
    /\ SubSeq(arg.v, 1, 3) = <<"Strengths:", " ", "early">>
    /\ ret[1].ids.is_structured = 1
    /\ ret[1].prose.strengths_text = Some(<<"clear", " ", "writing">>)
    /\ ret[1].prose.improvements_text = Some(<<"slow", " ", "reviews">>)

----------------------------------------------------------------------------
(* Properties of concurrent POST /api/feedback, under SpecConcurrent *)

\* C29: however the lookups and writes of the requests interleave, table
\* feedback holds at most one row for a pair (from_user_id, to_user_id).
C29_ConcurrentSavesOneRowPerPair ==
    \A r, q \in feedback_tbl :
        (r.from_user_id = q.from_user_id /\ r.to_user_id = q.to_user_id) => r = q

----------------------------------------------------------------------------
(* Properties of get_session_engine, under SpecDemo *)

\* C30: get_session_engine never ends with an error, and the engine it
\* returns is the one registered for the session, whatever the cleanup
\* thread does meanwhile.
C30_EngineLookupSafe ==
    /\ demo.req.pc # "raised"
    /\ demo.req.pc = "returned" => demo.req.ret # None

====
